---- MODULE Spec2Model ----
\* c0check: a test harness for the C0 toolchain (cc0, c0vm, coin).
\* The model covers the data model (spec.rs), the behaviour oracle (checker.rs),
\* the executers with the process launcher (launcher.rs), the parallel test
\* loop and the summary (main.rs), the spec parser (parse_spec.rs), test
\* discovery from sources.test files (discover_tests.rs), parse_size
\* (options.rs) and the executer constructors (implementations.rs).
\*
\* Environment assumptions of the model: pipe(2), fork(2), read(2) and
\* waitpid(2) succeed; waitpid without WUNTRACED reports only Exited or
\* Signaled.  Everything the child processes do (their exit status, their
\* output, the files they leave) and the outcome of deleting a file are
\* inputs chosen nondeterministically.  In the system-call-level runs of
\* execute_with_args and of compile the children's chdir, dup2, close,
\* sigaction and setpgid succeed, and time is not modelled: an armed alarm
\* can go off at any moment.  The parser is run on token strings; the lexer
\* is generated by the logos library.
EXTENDS Integers, Sequences, FiniteSets, TLC

\* ---------------------------------------------------------------- bounds

\* Largest number of top-level entries of a test's Specs.
MaxSpecs == 2
\* Largest number of nested Implications in one entry (find_behavior runs).
MaxChain == 2
\* Largest length of a result file in bytes (runs of execute_with_args).
MaxFileLen == 6
\* Largest number of tests run_tests is called on.
MaxTests == 2
\* Longest predicate, in tokens, parse is run on.
MaxPredLen == 5
\* Most ';'-separated clauses in one input of parse.
MaxClauses == 2
\* Longest arbitrary token string parse is run on.
MaxRawLen == 3
\* Most test directories discover is run on, and most lines of a sources.test.
MaxDirs == 2
MaxLines == 2
\* Longest argument, in characters, parse_size is run on.
MaxSizeLen == 4

\* ------------------------------------------------------------ data model

\* Option<T>: None is the empty tuple, Some(x) the one-element tuple.
None == <<>>
Some(x) == <<x>>

\* i32 values used as return values in specs.
I32Samples == {-2147483647 - 1, -1, 0, 1, 2147483647}

\* Variants of Behavior that carry no data.
PlainTags == {"CompileError", "Runs", "InfiniteLoop", "Abort", "Failure", "Segfault", "DivZero"}

Plain(tag) == [tag |-> tag, val |-> None]
Return(v) == [tag |-> "Return", val |-> v]
Skipped == [tag |-> "Skipped", val |-> None]

\* All values of the enum Behavior (return values sampled).
Behaviors ==
  {Plain(t) : t \in PlainTags}
    \cup {Return(None)} \cup {Return(Some(x)) : x \in I32Samples}
    \cup {Skipped}

\* A plausible slip: the Skipped arms are missing, Skipped equals only itself.
BehaviorEqNoSkip(self, other) ==
  CASE self.tag \in PlainTags /\ other.tag = self.tag -> TRUE
    [] self.tag = "Return" /\ other.tag = "Return" ->
         \/ self.val = None
         \/ other.val = None
         \/ self.val = other.val
    [] OTHER -> self.tag = other.tag

\* impl PartialEq for Behavior: the match on (self, other), arm by arm.
BehaviorEq(self, other) ==
  CASE self.tag \in PlainTags /\ other.tag = self.tag -> TRUE
    [] self.tag = "Return" /\ other.tag = "Return" ->
         IF self.val = None THEN TRUE
         ELSE IF other.val = None THEN TRUE
         ELSE self.val[1] = other.val[1]
    [] self.tag = "Skipped" -> TRUE
    [] other.tag = "Skipped" -> TRUE
    [] OTHER -> FALSE

\* ImplementationPredicate (spec.rs): atoms and the three connectives.
Library == [op |-> "Library"]
Typechecked == [op |-> "Typechecked"]
GarbageCollected == [op |-> "GarbageCollected"]
Safe == [op |-> "Safe"]
False == [op |-> "False"]
ImplementationName(name) == [op |-> "ImplementationName", name |-> name]
Not(p) == [op |-> "Not", p |-> p]
And(p1, p2) == [op |-> "And", p1 |-> p1, p2 |-> p2]
Or(p1, p2) == [op |-> "Or", p1 |-> p1, p2 |-> p2]

\* Spec (spec.rs): a bare Behavior or Implication(predicate, Box<Spec>).
SpecBehavior(b) == [kind |-> "Behavior", b |-> b]
Implication(p, s) == [kind |-> "Implication", predicate |-> p, consequent |-> s]

\* The names parse_executer accepts.
Executers == {"cc0", "c0vm", "coin"}

\* Executer::properties of CC0Executer, C0VMExecuter and CoinExecuter.
Properties(e) ==
  CASE e = "cc0" ->
         [libraries |-> TRUE, garbage_collected |-> TRUE, safe |-> TRUE,
          typechecked |-> TRUE, name |-> "cc0"]
    [] e = "c0vm" ->
         [libraries |-> TRUE, garbage_collected |-> FALSE, safe |-> TRUE,
          typechecked |-> TRUE, name |-> "cc0_c0vm"]
    [] e = "coin" ->
         [libraries |-> TRUE, garbage_collected |-> FALSE, safe |-> TRUE,
          typechecked |-> TRUE, name |-> "coin"]

\* checker::matches_predicate.
RECURSIVE matches_predicate(_, _)
matches_predicate(predicate, properties) ==
  CASE predicate.op = "Library" -> properties.libraries
    [] predicate.op = "Typechecked" -> properties.typechecked
    [] predicate.op = "GarbageCollected" -> properties.garbage_collected
    [] predicate.op = "Safe" -> properties.safe
    [] predicate.op = "False" -> FALSE
    [] predicate.op = "ImplementationName" -> properties.name = predicate.name
    [] predicate.op = "Not" -> ~matches_predicate(predicate.p, properties)
    [] predicate.op = "And" ->
         matches_predicate(predicate.p1, properties) /\ matches_predicate(predicate.p2, properties)
    [] predicate.op = "Or" ->
         matches_predicate(predicate.p1, properties) \/ matches_predicate(predicate.p2, properties)

\* A plausible slip: stop at the first true predicate and return the Behavior
\* at the end of the chain, skipping the predicates after it.
RECURSIVE ChainBehavior(_)
ChainBehavior(spec) ==
  IF spec.kind = "Behavior" THEN spec.b ELSE ChainBehavior(spec.consequent)

RECURSIVE find_behavior_first_true(_, _)
find_behavior_first_true(spec, properties) ==
  IF spec.kind = "Behavior" THEN Some(spec.b)
  ELSE IF matches_predicate(spec.predicate, properties)
       THEN Some(ChainBehavior(spec.consequent))
       ELSE find_behavior_first_true(spec.consequent, properties)

\* A plausible slip: a false predicate is passed over instead of ending the
\* walk.
RECURSIVE find_behavior_pass_false(_, _)
find_behavior_pass_false(spec, properties) ==
  IF spec.kind = "Behavior" THEN Some(spec.b)
  ELSE find_behavior_pass_false(spec.consequent, properties)

\* checker::find_behavior.
RECURSIVE find_behavior(_, _)
find_behavior(spec, properties) ==
  IF spec.kind = "Behavior" THEN Some(spec.b)
  ELSE IF matches_predicate(spec.predicate, properties)
       THEN find_behavior(spec.consequent, properties)
       ELSE None

\* ------------------------------------------------- processes and files

CC0_GCC_FAILURE_CODE == 2
EXEC_FAILURE_CODE == 100
RUST_PANIC_CODE == 101

\* nix WaitStatus as waitpid(child, None) reports it.
Exited(code) == [st |-> "Exited", code |-> code]
Signaled(signal) == [st |-> "Signaled", signal |-> signal]
NotStarted == [st |-> "NotStarted"]
Running == [st |-> "Running"]

\* Exit codes and signals a child can end with (sampled: every code the
\* launcher names, and codes and signals it does not name).
ExitCodes == {0, 1, 2, 3, 4, 100, 101}
Signals == {"SIGSEGV", "SIGALRM", "SIGFPE", "SIGABRT", "SIGXCPU", "SIGKILL", "SIGTERM"}
WaitStatuses == {Exited(c) : c \in ExitCodes} \cup {Signaled(s) : s \in Signals}

\* Result<T, anyhow::Error> values.
Ok(output, behavior) == [t |-> "Ok", output |-> output, behavior |-> behavior]
Err(msg) == [t |-> "Err", msg |-> msg]
NoResult == [t |-> "None"]

\* Result<Result<(), String>> of compile.
CompileOk == [t |-> "OkOk"]
CompileFailed(output) == [t |-> "OkErr", output |-> output]

\* A plausible slip: exit code 2 of the compiler taken for a compile error.
compile_classify_gcc_as_error(status, output) ==
  IF status.st = "Exited" /\ status.code = 0 THEN CompileOk
  ELSE IF status.st = "Exited" /\ status.code \in {1, CC0_GCC_FAILURE_CODE} THEN CompileFailed(output)
  ELSE Err("CC0 unexpectedly failed")

\* compile, parent side: the match on the supervising child's WaitStatus.
compile_classify(status, output) ==
  IF status.st = "Exited" /\ status.code = 0 THEN CompileOk
  ELSE IF status.st = "Exited" /\ status.code = 1 THEN CompileFailed(output)
  ELSE IF status.st = "Exited" /\ status.code = CC0_GCC_FAILURE_CODE
       THEN Err("CC0 failed to invoke GCC")
  ELSE IF status.st = "Exited" /\ status.code = EXEC_FAILURE_CODE
       THEN Err("Failed to exec cc0")
  ELSE IF status.st = "Exited" /\ status.code = RUST_PANIC_CODE
       THEN Err("CC0 process panic'd")
  ELSE IF status.st = "Signaled" /\ status.signal = "SIGALRM"
       THEN Err("CC0 timed out")
  ELSE Err("CC0 unexpectedly failed")

\* A byte b >= 128 read as the top byte of a two's-complement i32.
SignedByte(b) == IF b >= 128 THEN b - 256 ELSE b

\* i32::from_ne_bytes on a little-endian or a big-endian build.
from_ne_bytes(bytes, le) ==
  IF le
  THEN bytes[1] + 256 * bytes[2] + 65536 * bytes[3] + 16777216 * SignedByte(bytes[4])
  ELSE bytes[4] + 256 * bytes[3] + 65536 * bytes[2] + 16777216 * SignedByte(bytes[1])

\* A plausible slip: the tag byte taken as part of the value.
read_result_with_tag(file, le) ==
  IF file = None THEN None
  ELSE IF Len(file[1]) = 5
       THEN Some(from_ne_bytes(<<file[1][1], file[1][2], file[1][3], file[1][4]>>, le))
       ELSE None

\* execute_with_args: the Option<i32> read from the result file.  file is
\* None when fs::read fails, Some(bytes) otherwise.
read_result(file, le) ==
  IF file = None THEN None
  ELSE IF Len(file[1]) = 5
       THEN Some(from_ne_bytes(<<file[1][2], file[1][3], file[1][4], file[1][5]>>, le))
       ELSE None

\* A plausible slip: exit codes 1 and 2 exchanged.
classify_status_swapped(status, result) ==
  IF status.st = "Exited"
  THEN CASE status.code = 0 ->
              IF result # None THEN Some(Return(Some(result[1]))) ELSE None
         [] status.code = 2 -> Some(Plain("Failure"))
         [] status.code = 1 -> Some(Plain("CompileError"))
         [] status.code = 4 -> Some(Plain("Failure"))
         [] OTHER -> None
  ELSE CASE status.signal = "SIGSEGV" -> Some(Plain("Segfault"))
         [] status.signal = "SIGALRM" -> Some(Plain("InfiniteLoop"))
         [] status.signal = "SIGFPE" -> Some(Plain("DivZero"))
         [] status.signal = "SIGABRT" -> Some(Plain("Abort"))
         [] OTHER -> None

\* A plausible slip: a clean exit is reported as Runs.
classify_status_runs(status, result) ==
  IF status.st = "Exited" /\ status.code = 0 /\ result # None THEN Some(Plain("Runs"))
  ELSE None

\* execute_with_args: `let behavior = match status`; None stands for the arms
\* that return Err.
classify_status(status, result) ==
  IF status.st = "Exited"
  THEN CASE status.code = 0 ->
              IF result # None THEN Some(Return(Some(result[1]))) ELSE None
         [] status.code = 1 -> Some(Plain("Failure"))
         [] status.code = 2 -> Some(Plain("CompileError"))
         [] status.code = 4 -> Some(Plain("Failure"))
         [] OTHER -> None
  ELSE CASE status.signal = "SIGSEGV" -> Some(Plain("Segfault"))
         [] status.signal = "SIGALRM" -> Some(Plain("InfiniteLoop"))
         [] status.signal = "SIGFPE" -> Some(Plain("DivZero"))
         [] status.signal = "SIGABRT" -> Some(Plain("Abort"))
         [] OTHER -> None

\* The error message of each arm of the match that returns Err.
classify_error(status) ==
  IF status.st = "Exited"
  THEN CASE status.code = 0 -> "C0 program exited succesfully, but no return value was written"
         [] status.code = EXEC_FAILURE_CODE -> "Failed to exec the test program"
         [] status.code = RUST_PANIC_CODE -> "Test program process panic'd"
         [] OTHER -> "Unexpected program exit status"
  ELSE "Program exited with unexpected signal"

\* execute_with_args, parent side after waitpid: read the result file, delete
\* it when it was read (a failure to delete returns Err), classify.
execute_with_args(status, output, file, rmFails, le) ==
  IF file # None /\ rmFails
  THEN Err("when removing test program result file")
  ELSE LET behavior == classify_status(status, read_result(file, le))
       IN  IF behavior = None THEN Err(classify_error(status))
           ELSE Ok(output, behavior[1])

\* ----------------------------------------------------------- the oracle

\* TestResult (checker.rs), and the Err that run_test passes on with `?`.
Success == [t |-> "Success"]
Mismatch(expected, actual, output) ==
  [t |-> "Mismatch", expected |-> expected, actual |-> actual, output |-> output]

\* checker::run_test, lines 11-16: the Behaviors of the entries that resolve,
\* in entry order.
RECURSIVE resolve_behaviors(_, _)
resolve_behaviors(specs, properties) ==
  IF specs = <<>> THEN <<>>
  ELSE LET found == find_behavior(Head(specs), properties)
       IN  found \o resolve_behaviors(Tail(specs), properties)

\* A plausible slip: only the first resolved Behavior is compared.
compare_first_only(behaviors, output, result) ==
  IF behaviors # <<>> /\ ~BehaviorEq(behaviors[1], result)
  THEN Mismatch(behaviors[1], result, output)
  ELSE Success

\* A plausible slip: the last violated Behavior is reported, not the first.
RECURSIVE compare_report_last(_, _, _)
compare_report_last(behaviors, output, result) ==
  IF behaviors = <<>> THEN Success
  ELSE LET rest == compare_report_last(Tail(behaviors), output, result)
       IN  IF rest # Success THEN rest
           ELSE IF ~BehaviorEq(Head(behaviors), result)
                THEN Mismatch(Head(behaviors), result, output)
                ELSE Success

\* checker::run_test, lines 23-29: the loop over the resolved Behaviors.
RECURSIVE compare_behaviors(_, _, _)
compare_behaviors(behaviors, output, result) ==
  IF behaviors = <<>> THEN Success
  ELSE IF ~BehaviorEq(Head(behaviors), result)
       THEN Mismatch(Head(behaviors), result, output)
       ELSE compare_behaviors(Tail(behaviors), output, result)

\* checker::run_test, lines 22-29: what it returns for the executer's answer.
check_result(behaviors, answer) ==
  IF answer.t = "Err" THEN answer
  ELSE compare_behaviors(behaviors, answer.output, answer.behavior)

\* --------------------------------------------------------- test inputs

\* File names as tuples of characters.
SrcC0 == <<"t", ".", "c", "0">>
SrcC1 == <<"l", ".", "c", "1">>
SourceLists == {<<SrcC0>>, <<SrcC0, SrcC1>>}

\* str::ends_with.
EndsWith(s, suffix) ==
  /\ Len(s) >= Len(suffix)
  /\ SubSeq(s, Len(s) - Len(suffix) + 1, Len(s)) = suffix

\* A plausible slip: only the first source file is looked at.
UsesC1FirstOnly(sources) == EndsWith(sources[1], <<".", "c", "1">>)

\* CoinExecuter::run_test: the test uses C1.
UsesC1(sources) == \E i \in 1..Len(sources) : EndsWith(sources[i], <<".", "c", "1">>)

\* Top-level entries of the tests the harness is run on.
OracleEntries ==
  {SpecBehavior(Return(Some(0))), SpecBehavior(Return(None)),
   SpecBehavior(Plain("Segfault")), SpecBehavior(Plain("Runs")),
   Implication(GarbageCollected, SpecBehavior(Return(Some(1)))),
   Implication(False, SpecBehavior(Plain("InfiniteLoop")))}

\* All sequences over S of length lo..hi.
SeqsOf(S, lo, hi) == UNION {[1..n -> S] : n \in lo..hi}

\* Specs: parse returns at least one entry.
SpecsSet == SeqsOf(OracleEntries, 1, MaxSpecs)

\* Text a child can write to the capture pipe.
Outputs == {"", "text"}

\* Result files a test program can leave (None: no file), whole-harness runs.
CoreFiles ==
  {None, Some(<<0, 0, 0, 0, 0>>), Some(<<7, 1, 0, 0, 0>>), Some(<<1, 0, 0, 0>>)}

\* Result files of every length up to MaxFileLen, runs of execute_with_args.
Bytes == {0, 1, 255}
AllFiles == {None} \cup {Some(f) : f \in SeqsOf(Bytes, 0, MaxFileLen)}

\* ---------------------------------------------------------------- state

VARIABLES
  executer,       \* the implementation under test, chosen at start-up
  littleEndian,   \* byte order of the build
  test,           \* the TestInfo being run: [specs, sources]
  pc,             \* where checker::run_test is: idle, compiling, executing, done
  invoked,        \* Executer::run_test has been called
  compileProc,    \* the compiler's supervising child
  compileOutput,  \* what compile read from its capture pipe
  compiled,       \* what compile returned
  execProc,       \* the test process
  execOutput,     \* what execute_with_args read from its capture pipe
  resultFile,     \* the result file the test process left (None: no file)
  removeFails,    \* deleting the result file failed
  outFileOnDisk,  \* the compiler's out_file exists in the working directory
  outRemoveFails, \* deleting the out_file failed
  ret,            \* what Executer::run_test returned
  outcome,        \* what checker::run_test returned
  eq,             \* one evaluation of Behavior's ==: [self, other, result]
  fb,             \* one evaluation of find_behavior: [spec, executer, result]
  parseRun,       \* one evaluation of parse: [input, options, from, result]
  tests,          \* run_tests: the slice of TestInfo it is called on
  pending,        \* run_tests: indices par_iter has not yet handed to a thread
  workers,        \* run_tests: the pool's threads by tid, each with its locals
  testStatus,     \* run_tests: per test, what checker::run_test returned
  testAnswer,     \* run_tests: per test, what Executer::run_test returned
  count,          \* run_tests: the AtomicUsize progress counter
  failures,       \* run_tests: Mutex<Vec<(&TestInfo, Failure)>>
  timeouts,       \* run_tests: Mutex<Vec<&TestInfo>>
  errors,         \* run_tests: Mutex<Vec<(&TestInfo, Error)>>
  summary,        \* main: the counts of the test summary (None: not printed)
  child,          \* the forked child of execute_with_args: [pc, setup, alarm, status]
  pipe,           \* the capture pipe: [writers, data]
  program,        \* the target program: [kind, wrote, file]
  discovery,      \* one run of discover: [dirs, dir, line, local, tests, warned, pc]
  sizeRun,        \* one evaluation of parse_size: [size, result]
  implRun,        \* one executer built from Options: [options, kind, executer, args]
  compileRun      \* one run of compile, process by process

harnessVars ==
  <<executer, littleEndian, test, pc, invoked, compileProc, compileOutput,
    compiled, execProc, execOutput, resultFile, removeFails, outFileOnDisk,
    outRemoveFails, ret, outcome>>

runnerVars ==
  <<tests, pending, workers, testStatus, testAnswer, count, failures, timeouts,
    errors, summary>>

launchVars == <<child, pipe, program>>

auxVars == <<discovery, sizeRun, implRun, compileRun>>

vars == <<harnessVars, eq, fb, parseRun, auxVars, runnerVars, launchVars>>

\* No child of execute_with_args is followed step by step.
NoChild == [pc |-> "none", setup |-> <<>>, alarm |-> None, status |-> None]
NoPipe == [writers |-> {}, data |-> ""]
LaunchOff ==
  /\ child = NoChild
  /\ pipe = NoPipe
  /\ program = [kind |-> "exits", wrote |-> FALSE, file |-> None]

\* run_tests is not running.
RunnerOff ==
  /\ tests = <<>>
  /\ pending = {}
  /\ workers = <<>>
  /\ testStatus = <<>>
  /\ testAnswer = <<>>
  /\ count = 1
  /\ failures = <<>>
  /\ timeouts = <<>>
  /\ errors = <<>>
  /\ summary = None

\* discover, parse_size, the executer constructors and compile are not
\* running.
DiscoveryIdle == [pc |-> "off"]
SizeIdle == [pc |-> "off"]
ImplIdle == [pc |-> "off"]
CompileIdle == [pc |-> "off"]
AuxOff ==
  /\ discovery = DiscoveryIdle
  /\ sizeRun = SizeIdle
  /\ implRun = ImplIdle
  /\ compileRun = CompileIdle

\* The resolved Behaviors of the running test (the local `behaviors`).
Behaviors_of_test == resolve_behaviors(test.specs, Properties(executer))

EqIdle == [self |-> Skipped, other |-> Skipped, result |-> None]
FbIdle == [spec |-> SpecBehavior(Skipped), executer |-> "cc0", result |-> None]
ParseIdle ==
  [input |-> <<>>, options |-> [require_test_marker |-> FALSE],
   from |-> [kind |-> "none", pred |-> <<>>, clauses |-> <<>>, marker |-> FALSE],
   result |-> None]

\* The harness before checker::run_test is called on `test`.
HarnessStart ==
  /\ pc = "idle"
  /\ invoked = FALSE
  /\ compileProc = NotStarted
  /\ compileOutput = ""
  /\ compiled = NoResult
  /\ execProc = NotStarted
  /\ execOutput = ""
  /\ resultFile = None
  /\ removeFails = FALSE
  /\ outFileOnDisk = FALSE
  /\ outRemoveFails = FALSE
  /\ ret = NoResult
  /\ outcome = NoResult

\* main: an executer is selected and discovery has produced the test.
Init ==
  /\ executer \in Executers
  /\ littleEndian \in BOOLEAN
  /\ test \in [specs : SpecsSet, sources : SourceLists]
  /\ HarnessStart
  /\ eq = EqIdle
  /\ fb = FbIdle
  /\ parseRun = ParseIdle
  /\ AuxOff
  /\ RunnerOff
  /\ LaunchOff

\* A plausible slip: the executer is run before looking at the Behaviors.
needs_run_always(behaviors) == TRUE

\* checker::run_test, lines 18-20: the executer is run only when some
\* entry resolved.
needs_run(behaviors) == behaviors # <<>>

\* checker::run_test up to the first wait: resolve the entries; when none
\* resolves return Success; otherwise call Executer::run_test, which for coin
\* returns Skipped for a C1 test or forks the test process, and for cc0 and
\* c0vm forks the compiler.
RunTestStart ==
  /\ pc = "idle"
  /\ IF ~needs_run(Behaviors_of_test)
     THEN /\ pc' = "done"
          /\ outcome' = Success
          /\ UNCHANGED <<invoked, compileProc, execProc, ret>>
     ELSE /\ invoked' = TRUE
          /\ IF executer = "coin"
             THEN IF UsesC1(test.sources)
                  THEN /\ ret' = Ok("<C1 test skipped>", Skipped)
                       /\ outcome' = check_result(Behaviors_of_test, ret')
                       /\ pc' = "done"
                       /\ UNCHANGED <<compileProc, execProc>>
                  ELSE /\ execProc' = Running
                       /\ pc' = "executing"
                       /\ UNCHANGED <<compileProc, ret, outcome>>
             ELSE /\ compileProc' = Running
                  /\ pc' = "compiling"
                  /\ UNCHANGED <<execProc, ret, outcome>>
  /\ UNCHANGED <<executer, littleEndian, test, compileOutput, compiled,
                 execOutput, resultFile, removeFails, outFileOnDisk,
                 outRemoveFails, eq, fb, parseRun, auxVars, runnerVars, launchVars>>

\* A plausible slip: the test is executed whatever the compiler said.
after_compile_always_runs(compilation_result) ==
  IF compilation_result.t = "Err" THEN compilation_result ELSE NoResult

\* CC0Executer::run_test and C0VMExecuter::run_test after compile returned:
\* Err is passed on by `?`, a compile error becomes (output, CompileError),
\* and NoResult stands for going on to execute the test.
after_compile(compilation_result) ==
  IF compilation_result.t = "Err" THEN compilation_result
  ELSE IF compilation_result.t = "OkErr" THEN Ok(compilation_result.output, Plain("CompileError"))
  ELSE NoResult

\* compile returns: the capture pipe is drained, the supervising child is
\* reaped and its status classified; on success the test process is forked.
\* A compiler that exits with 0 has written the out_file; one that ends in
\* any other way may have left it behind.  Neither executer touches the
\* out_file when compile did not succeed.
CompileDone ==
  /\ pc = "compiling"
  /\ \E status \in WaitStatuses, output \in Outputs, left \in BOOLEAN :
       /\ status = Exited(0) => left
       /\ outFileOnDisk' = left
       /\ compileProc' = status
       /\ compileOutput' = output
       /\ compiled' = compile_classify(status, output)
       /\ LET answer == after_compile(compiled')
          IN  IF answer = NoResult
              THEN /\ execProc' = Running
                   /\ pc' = "executing"
                   /\ UNCHANGED <<ret, outcome>>
              ELSE /\ ret' = answer
                   /\ outcome' = check_result(Behaviors_of_test, answer)
                   /\ pc' = "done"
                   /\ UNCHANGED execProc
  /\ UNCHANGED <<executer, littleEndian, test, invoked, execOutput,
                 resultFile, removeFails, outRemoveFails, eq, fb, parseRun, auxVars, runnerVars,
                 launchVars>>

\* fs::remove_file(out_file) of cc0 and c0vm after execution: the file is
\* gone unless the removal fails; coin has no out_file.
RemoveOutFile ==
  \E orm \in BOOLEAN :
    /\ ~outFileOnDisk => ~orm
    /\ outRemoveFails' = orm
    /\ outFileOnDisk' = orm

\* execute_with_args returns: the capture pipe is drained, the test process
\* is reaped, the result file is read and deleted, the status classified.
\* cc0 and c0vm then delete the compiled file (a failure is only printed) and
\* return the same answer; checker::run_test compares it.
ExecDone(files) ==
  /\ pc = "executing"
  /\ \E status \in WaitStatuses, output \in Outputs, file \in files, rm \in BOOLEAN :
       /\ file = None => ~rm
       /\ execProc' = status
       /\ execOutput' = output
       /\ resultFile' = file
       /\ removeFails' = rm
       /\ ret' = execute_with_args(status, output, file, rm, littleEndian)
       /\ outcome' = check_result(Behaviors_of_test, ret')
       /\ pc' = "done"
  /\ RemoveOutFile
  /\ UNCHANGED <<executer, littleEndian, test, invoked, compileProc,
                 compileOutput, compiled, eq, fb, parseRun, auxVars, runnerVars, launchVars>>

ExecDoneCore == ExecDone(CoreFiles)

Next == RunTestStart \/ CompileDone \/ ExecDoneCore

Spec == Init /\ [][Next]_vars

\* ------------------------------------ execute_with_args on its own

\* execute_with_args alone: coin has forked the test process of a C0 test.
InitSandbox ==
  /\ executer = "coin"
  /\ littleEndian \in BOOLEAN
  /\ test = [specs |-> <<SpecBehavior(Return(None))>>, sources |-> <<SrcC0>>]
  /\ pc = "executing"
  /\ invoked = TRUE
  /\ compileProc = NotStarted
  /\ compileOutput = ""
  /\ compiled = NoResult
  /\ execProc = Running
  /\ execOutput = ""
  /\ resultFile = None
  /\ removeFails = FALSE
  /\ outFileOnDisk = FALSE
  /\ outRemoveFails = FALSE
  /\ ret = NoResult
  /\ outcome = NoResult
  /\ eq = EqIdle
  /\ fb = FbIdle
  /\ parseRun = ParseIdle
  /\ AuxOff
  /\ RunnerOff
  /\ LaunchOff

ExecDoneAll == ExecDone(AllFiles)

NextSandbox == ExecDoneAll

SpecSandbox == InitSandbox /\ [][NextSandbox]_vars

\* -------------------------------------------- Behavior equality runs

\* The harness is not running.
HarnessOff ==
  /\ executer = "cc0"
  /\ littleEndian = TRUE
  /\ test = [specs |-> <<SpecBehavior(Return(None))>>, sources |-> <<SrcC0>>]
  /\ pc = "off"
  /\ invoked = FALSE
  /\ compileProc = NotStarted
  /\ compileOutput = ""
  /\ compiled = NoResult
  /\ execProc = NotStarted
  /\ execOutput = ""
  /\ resultFile = None
  /\ removeFails = FALSE
  /\ outFileOnDisk = FALSE
  /\ outRemoveFails = FALSE
  /\ ret = NoResult
  /\ outcome = NoResult

InitEq ==
  /\ HarnessOff
  /\ eq \in [self : Behaviors, other : Behaviors, result : {None}]
  /\ fb = FbIdle
  /\ parseRun = ParseIdle
  /\ AuxOff
  /\ RunnerOff
  /\ LaunchOff

\* self == other is evaluated.
ApplyEq ==
  /\ eq.result = None
  /\ eq' = [eq EXCEPT !.result = Some(BehaviorEq(eq.self, eq.other))]
  /\ UNCHANGED <<harnessVars, fb, parseRun, auxVars, runnerVars, launchVars>>

NextEq == ApplyEq

SpecEq == InitEq /\ [][NextEq]_vars

\* ------------------------------------------------ find_behavior runs

\* Predicates of the entries find_behavior is run on.
ChainPreds ==
  {Library, Typechecked, GarbageCollected, Safe, False,
   ImplementationName("cc0"), ImplementationName("coin"),
   Not(GarbageCollected), Not(ImplementationName("cc0_c0vm")),
   And(Safe, GarbageCollected), Or(GarbageCollected, ImplementationName("coin")),
   Not(Or(False, Safe))}

\* p1 => ... => pn => b.
RECURSIVE MakeChain(_, _)
MakeChain(preds, b) ==
  IF preds = <<>> THEN SpecBehavior(b)
  ELSE Implication(Head(preds), MakeChain(Tail(preds), b))

ChainSpecs ==
  {MakeChain(ps, b) : ps \in SeqsOf(ChainPreds, 0, MaxChain),
                      b \in {Return(Some(0)), Plain("DivZero")}}

InitResolve ==
  /\ HarnessOff
  /\ eq = EqIdle
  /\ fb \in [spec : ChainSpecs, executer : Executers, result : {None}]
  /\ parseRun = ParseIdle
  /\ AuxOff
  /\ RunnerOff
  /\ LaunchOff

\* find_behavior(spec, &properties) is evaluated.
ApplyFind ==
  /\ fb.result = None
  /\ fb' = [fb EXCEPT !.result = Some(find_behavior(fb.spec, Properties(fb.executer)))]
  /\ UNCHANGED <<harnessVars, eq, parseRun, auxVars, runnerVars, launchVars>>

NextResolve == ApplyFind

SpecResolve == InitResolve /\ [][NextResolve]_vars

\* ---------------------------------------------------- run_tests runs

\* Strings as tuples of characters.
DigitChars == <<"0", "1", "2", "3", "4", "5", "6", "7", "8", "9">>

\* Display of a positive integer: decimal digits without leading zeros.
RECURSIVE Digits(_)
Digits(n) ==
  IF n < 10 THEN <<DigitChars[n + 1]>>
  ELSE Digits(n \div 10) \o <<DigitChars[(n % 10) + 1]>>

\* env::current_dir() of the harness process, shared by all its threads.
Cwd == <<"/", "w">>

\* A plausible slip: one fixed name for every thread's result file.
result_file_path_fixed(tid) ==
  Cwd \o <<"/", "c", "0", "_", "r", "e", "s", "u", "l", "t">>

\* execute_with_args: format!("{}/c0_result{}", current_dir, gettid()).
result_file_path(tid) ==
  Cwd \o <<"/", "c", "0", "_", "r", "e", "s", "u", "l", "t">> \o Digits(tid)

\* CC0Executer::run_test and C0VMExecuter::run_test: the out_file they format
\* (coin compiles nothing and has none).
out_file_path(e, tid) ==
  CASE e = "cc0" -> Some(Cwd \o <<"/", "a", ".", "o", "u", "t">> \o Digits(tid))
    [] e = "c0vm" ->
         Some(Cwd \o <<"/", "a", ".", "o", "u", "t">> \o Digits(tid) \o <<".", "b", "c", "0">>)
    [] OTHER -> None

\* Thread ids of the pool's threads: gettid() is distinct per live thread.
ThreadPools == {{7, 17}, {17, 70}}

\* The tests run_tests is run on, and what their children may do.
RunnerTests ==
  {[specs |-> <<SpecBehavior(Return(Some(0)))>>, sources |-> <<SrcC0>>],
   [specs |-> <<Implication(False, SpecBehavior(Plain("InfiniteLoop")))>>,
    sources |-> <<SrcC0>>],
   [specs |-> <<SpecBehavior(Plain("InfiniteLoop"))>>, sources |-> <<SrcC0, SrcC1>>]}
RunnerCompileStatuses == {Exited(0), Exited(1), Exited(CC0_GCC_FAILURE_CODE)}
RunnerExecStatuses ==
  {Exited(0), Exited(EXEC_FAILURE_CODE), Signaled("SIGALRM"), Signaled("SIGSEGV")}
RunnerFiles == {None, Some(<<0, 0, 0, 0, 0>>)}

\* A thread of the pool that is running no closure.
IdleWorker == [pc |-> "idle", test |-> 0, out_file |-> None, result_file |-> None]

\* run_tests up to par_iter: empty accumulators, the counter at 1.
InitRunner ==
  /\ executer \in Executers
  /\ littleEndian = TRUE
  /\ test = [specs |-> <<SpecBehavior(Return(None))>>, sources |-> <<SrcC0>>]
  /\ pc = "off"
  /\ invoked = FALSE
  /\ compileProc = NotStarted
  /\ compileOutput = ""
  /\ compiled = NoResult
  /\ execProc = NotStarted
  /\ execOutput = ""
  /\ resultFile = None
  /\ removeFails = FALSE
  /\ outFileOnDisk = FALSE
  /\ outRemoveFails = FALSE
  /\ ret = NoResult
  /\ outcome = NoResult
  /\ eq = EqIdle
  /\ fb = FbIdle
  /\ parseRun = ParseIdle
  /\ AuxOff
  /\ summary = None
  /\ tests \in SeqsOf(RunnerTests, 1, MaxTests)
  /\ pending = 1..Len(tests)
  /\ \E pool \in ThreadPools : workers = [tid \in pool |-> IdleWorker]
  /\ testStatus = [t \in 1..Len(tests) |-> NoResult]
  /\ testAnswer = [t \in 1..Len(tests) |-> NoResult]
  /\ count = 1
  /\ failures = <<>>
  /\ timeouts = <<>>
  /\ errors = <<>>
  /\ LaunchOff

\* The resolved Behaviors of test t under the selected executer.
Behaviors_of(t) == resolve_behaviors(tests[t].specs, Properties(executer))

\* The closure of for_each starts on a thread: checker::run_test up to its
\* first wait, as RunTestStart, with the out_file or result file it formats.
WorkerStart(tid) ==
  /\ workers[tid].pc = "idle"
  /\ \E t \in pending :
       /\ pending' = pending \ {t}
       /\ IF ~needs_run(Behaviors_of(t))
          THEN /\ testStatus' = [testStatus EXCEPT ![t] = Success]
               /\ workers' = [workers EXCEPT ![tid] = [IdleWorker EXCEPT !.pc = "counting", !.test = t]]
               /\ UNCHANGED testAnswer
          ELSE IF executer = "coin"
          THEN IF UsesC1(tests[t].sources)
               THEN LET skipped == Ok("<C1 test skipped>", Skipped)
                    IN  /\ testAnswer' = [testAnswer EXCEPT ![t] = skipped]
                        /\ testStatus' = [testStatus EXCEPT ![t] = check_result(Behaviors_of(t), skipped)]
                        /\ workers' = [workers EXCEPT ![tid] =
                                         [IdleWorker EXCEPT !.pc = "counting", !.test = t]]
               ELSE /\ workers' = [workers EXCEPT ![tid] =
                                     [IdleWorker EXCEPT !.pc = "executing", !.test = t,
                                        !.result_file = Some(result_file_path(tid))]]
                    /\ UNCHANGED <<testStatus, testAnswer>>
          ELSE /\ workers' = [workers EXCEPT ![tid] =
                                [IdleWorker EXCEPT !.pc = "compiling", !.test = t,
                                   !.out_file = out_file_path(executer, tid)]]
               /\ UNCHANGED <<testStatus, testAnswer>>
  /\ UNCHANGED <<harnessVars, eq, fb, parseRun, auxVars, launchVars, tests, summary, count, failures, timeouts, errors>>

\* compile returns on a thread, as CompileDone.
WorkerCompileDone(tid) ==
  /\ workers[tid].pc = "compiling"
  /\ \E cstatus \in RunnerCompileStatuses :
       LET t == workers[tid].test
           a == after_compile(compile_classify(cstatus, ""))
       IN  IF a = NoResult
           THEN /\ workers' = [workers EXCEPT ![tid].pc = "executing",
                                              ![tid].result_file = Some(result_file_path(tid))]
                /\ UNCHANGED <<testStatus, testAnswer>>
           ELSE /\ testAnswer' = [testAnswer EXCEPT ![t] = a]
                /\ testStatus' = [testStatus EXCEPT ![t] = check_result(Behaviors_of(t), a)]
                /\ workers' = [workers EXCEPT ![tid] = [IdleWorker EXCEPT !.pc = "counting", !.test = t]]
  /\ UNCHANGED <<harnessVars, eq, fb, parseRun, auxVars, launchVars, tests, summary, pending, count,
                 failures, timeouts, errors>>

\* execute_with_args returns on a thread, as ExecDone.
WorkerExecDone(tid) ==
  /\ workers[tid].pc = "executing"
  /\ \E xstatus \in RunnerExecStatuses, file \in RunnerFiles :
       LET t == workers[tid].test
           a == execute_with_args(xstatus, "", file, FALSE, littleEndian)
       IN  /\ testAnswer' = [testAnswer EXCEPT ![t] = a]
           /\ testStatus' = [testStatus EXCEPT ![t] = check_result(Behaviors_of(t), a)]
           /\ workers' = [workers EXCEPT ![tid] = [IdleWorker EXCEPT !.pc = "counting", !.test = t]]
  /\ UNCHANGED <<harnessVars, eq, fb, parseRun, auxVars, launchVars, tests, summary, pending, count,
                 failures, timeouts, errors>>

\* count.fetch_add(1, Relaxed) and the progress string.
WorkerCount(tid) ==
  /\ workers[tid].pc = "counting"
  /\ count' = count + 1
  /\ workers' = [workers EXCEPT ![tid].pc = "matching"]
  /\ UNCHANGED <<harnessVars, eq, fb, parseRun, auxVars, launchVars, tests, summary, pending, testStatus, testAnswer,
                 failures, timeouts, errors>>

\* A plausible slip: the tag is taken from the expected Behavior.
is_timeout_expected(failure) == BehaviorEq(failure.expected, Plain("InfiniteLoop"))

\* Failure::is_timeout: self.actual == Behavior::InfiniteLoop.
is_timeout(failure) == BehaviorEq(failure.actual, Plain("InfiniteLoop"))

\* A plausible slip: the vector is replaced instead of extended.
push_overwrite(vec, x) == <<x>>

\* Vec::push under the accumulator's lock.
push(vec, x) == Append(vec, x)

\* `match status`: Success is only printed, a Mismatch goes to timeouts or to
\* failures, an Err to errors; the closure ends and the thread is free again.
WorkerRecord(tid) ==
  /\ workers[tid].pc = "matching"
  /\ LET t == workers[tid].test
         st == testStatus[t]
     IN  CASE st.t = "Success" -> UNCHANGED <<failures, timeouts, errors>>
           [] st.t = "Mismatch" ->
                IF is_timeout(st)
                THEN /\ timeouts' = push(timeouts, t)
                     /\ UNCHANGED <<failures, errors>>
                ELSE /\ failures' = push(failures, <<t, st>>)
                     /\ UNCHANGED <<timeouts, errors>>
           [] st.t = "Err" ->
                /\ errors' = push(errors, <<t, st>>)
                /\ UNCHANGED <<failures, timeouts>>
  /\ workers' = [workers EXCEPT ![tid] = IdleWorker]
  /\ UNCHANGED <<harnessVars, eq, fb, parseRun, auxVars, launchVars, tests, summary, pending, testStatus, testAnswer, count>>

\* main, after run_tests returned (par_iter has finished every test): the
\* four counts of the test summary.
Report ==
  /\ pending = {}
  /\ \A tid \in DOMAIN workers : workers[tid] = IdleWorker
  /\ summary = None
  /\ LET successes == Len(tests) - Len(failures) - Len(errors)
     IN  summary' = Some([passed |-> successes, timeouts |-> Len(timeouts),
                          failed |-> Len(failures), error |-> Len(errors)])
  /\ UNCHANGED <<harnessVars, eq, fb, parseRun, auxVars, launchVars, tests, pending, workers,
                 testStatus, testAnswer, count, failures, timeouts, errors>>

NextRunner ==
  \/ \E tid \in DOMAIN workers :
       \/ WorkerStart(tid)
       \/ WorkerCompileDone(tid)
       \/ WorkerExecDone(tid)
       \/ WorkerCount(tid)
       \/ WorkerRecord(tid)
  \/ Report

SpecRunner == InitRunner /\ [][NextRunner]_vars

\* ------------------------------- execute_with_args, system call by call

\* Timeouts in seconds for running a test, per executer.
CC0_TEST_TIMEOUT == 10
C0VM_TEST_TIMEOUT == 20
COIN_TEST_TIMEOUT == 20

\* The timeout each executer's run_test passes to execute_with_args.
test_timeout(e) ==
  CASE e = "cc0" -> CC0_TEST_TIMEOUT
    [] e = "c0vm" -> C0VM_TEST_TIMEOUT
    [] e = "coin" -> COIN_TEST_TIMEOUT

\* A plausible slip: the child goes on to execve without arming the alarm.
arm_alarm_never(timeout) == None

\* unistd::alarm::set(timeout): the pending alarm of the child process, which
\* execve preserves.
arm_alarm(timeout) == Some(timeout)

\* A plausible slip: read_from_pipe does not close the parent's write end.
close_write_end_forgotten(writers) == writers

\* read_from_pipe: unistd::close(write_pipe) in the parent.
close_write_end(writers) == writers \ {"parent"}

\* Kinds of target program: one that ends on its own (by exit or by a fatal
\* signal) and one that never does.
ProgramKinds == {"exits", "loops"}

\* An executer is about to call execute_with_args (cc0 and c0vm after a
\* successful compile).
InitLaunch ==
  /\ executer \in Executers
  /\ littleEndian = TRUE
  /\ test = [specs |-> <<SpecBehavior(Return(None))>>, sources |-> <<SrcC0>>]
  /\ pc = "launching"
  /\ invoked = TRUE
  /\ compileProc = (IF executer = "coin" THEN NotStarted ELSE Exited(0))
  /\ compileOutput = ""
  /\ compiled = (IF executer = "coin" THEN NoResult ELSE CompileOk)
  /\ execProc = NotStarted
  /\ execOutput = ""
  /\ resultFile = None
  /\ removeFails = FALSE
  /\ outFileOnDisk = (executer # "coin")
  /\ outRemoveFails = FALSE
  /\ ret = NoResult
  /\ outcome = NoResult
  /\ eq = EqIdle
  /\ fb = FbIdle
  /\ parseRun = ParseIdle
  /\ AuxOff
  /\ RunnerOff
  /\ child = NoChild
  /\ pipe = NoPipe
  /\ program \in [kind : ProgramKinds, wrote : {FALSE}, file : {None}]

\* unistd::pipe() and unistd::fork().  Both ends of the pipe are open in the
\* parent and in the child; a child forked by another thread of the pool
\* between the two calls inherits the write end as well.
Fork ==
  /\ pc = "launching"
  /\ \E inherited \in BOOLEAN :
       pipe' = [writers |-> {"parent", "child"} \cup (IF inherited THEN {"sibling"} ELSE {}),
                data |-> ""]
  /\ child' = [NoChild EXCEPT !.pc = "forked"]
  /\ execProc' = Running
  /\ pc' = "closing"
  /\ UNCHANGED <<executer, littleEndian, test, invoked, compileProc, compileOutput,
                 compiled, execOutput, resultFile, removeFails, outFileOnDisk,
                 outRemoveFails, ret, outcome, eq, fb, parseRun, auxVars, runnerVars, program>>

\* Parent, read_from_pipe: close(write_pipe).
ParentCloseWrite ==
  /\ pc = "closing"
  /\ pipe' = [pipe EXCEPT !.writers = close_write_end(pipe.writers)]
  /\ pc' = "draining"
  /\ UNCHANGED <<executer, littleEndian, test, invoked, compileProc, compileOutput,
                 compiled, execProc, execOutput, resultFile, removeFails,
                 outFileOnDisk, outRemoveFails, ret, outcome, eq, fb, parseRun, auxVars, runnerVars,
                 child, program>>

\* Parent, read_from_pipe: one unistd::read.  It returns the bytes in the pipe
\* when there are some, 0 when the pipe is empty and no write end is open
\* (the loop ends and read_pipe is closed), and blocks otherwise.  The program
\* writes at most once here, so extending `bytes` yields what was read.
ParentRead ==
  /\ pc = "draining"
  /\ IF pipe.data # ""
     THEN /\ execOutput' = pipe.data
          /\ pipe' = [pipe EXCEPT !.data = ""]
          /\ pc' = pc
     ELSE /\ pipe.writers = {}
          /\ pc' = "waiting"
          /\ UNCHANGED <<execOutput, pipe>>
  /\ UNCHANGED <<executer, littleEndian, test, invoked, compileProc, compileOutput,
                 compiled, execProc, resultFile, removeFails, outFileOnDisk,
                 outRemoveFails, ret, outcome, eq, fb, parseRun, auxVars, runnerVars, child, program>>

\* Parent: waitpid returns once the child has terminated; the result file is
\* read and deleted, the status classified, and checker::run_test compares.
ParentWait ==
  /\ pc = "waiting"
  /\ child.status # None
  /\ \E rm \in BOOLEAN :
       /\ program.file = None => ~rm
       /\ execProc' = child.status[1]
       /\ resultFile' = program.file
       /\ removeFails' = rm
       /\ ret' = execute_with_args(child.status[1], execOutput, program.file, rm, littleEndian)
       /\ outcome' = check_result(Behaviors_of_test, ret')
  /\ RemoveOutFile
  /\ child' = [child EXCEPT !.pc = "reaped"]
  /\ pc' = "done"
  /\ UNCHANGED <<executer, littleEndian, test, invoked, compileProc, compileOutput,
                 compiled, execOutput, eq, fb, parseRun, auxVars, runnerVars, pipe, program>>

\* One set-up call of the child between fork and execve.
ChildCall(from, to, calls) ==
  /\ child.pc = from
  /\ child' = [child EXCEPT !.pc = to, !.setup = child.setup \o calls]
  /\ UNCHANGED <<harnessVars, eq, fb, parseRun, auxVars, runnerVars, pipe, program>>

\* Child: env::set_current_dir(info.directory).
ChildChdir == ChildCall("forked", "in_test_dir", <<"chdir">>)

\* Child: redirect_io(write_pipe), two dup2 calls.
ChildRedirect == ChildCall("in_test_dir", "redirected", <<"dup2(stdout)", "dup2(stderr)">>)

\* Child: unistd::close(read_pipe).
ChildClose == ChildCall("redirected", "closed", <<"close(read_pipe)">>)

\* Child: unistd::alarm::set(timeout).
ChildAlarm ==
  /\ child.pc = "closed"
  /\ child' = [child EXCEPT !.pc = "armed", !.setup = child.setup \o <<"alarm">>,
                            !.alarm = arm_alarm(test_timeout(executer))]
  /\ UNCHANGED <<harnessVars, eq, fb, parseRun, auxVars, runnerVars, pipe, program>>

\* The child process terminates: it becomes a zombie with the given status
\* and every descriptor it holds is closed.
Die(st) ==
  /\ child' = [child EXCEPT !.pc = "zombie", !.status = Some(st), !.alarm = None]
  /\ pipe' = [pipe EXCEPT !.writers = pipe.writers \ {"child"}]

\* Child: unistd::execve; when it fails, process::exit(EXEC_FAILURE_CODE).
ChildExec ==
  /\ child.pc = "armed"
  /\ \E ok \in BOOLEAN :
       IF ok
       THEN /\ child' = [child EXCEPT !.pc = "program", !.setup = child.setup \o <<"execve">>]
            /\ UNCHANGED pipe
       ELSE Die(Exited(EXEC_FAILURE_CODE))
  /\ UNCHANGED <<harnessVars, eq, fb, parseRun, auxVars, runnerVars, program>>

\* The target program writes to its standard output.
ProgramWrite ==
  /\ child.pc = "program"
  /\ ~program.wrote
  /\ program' = [program EXCEPT !.wrote = TRUE]
  /\ pipe' = [pipe EXCEPT !.data = "text"]
  /\ UNCHANGED <<harnessVars, eq, fb, parseRun, auxVars, runnerVars, child>>

\* A target program that ends on its own does so, by exit or by a fatal
\* signal, and may leave a result file.
ProgramExit ==
  /\ child.pc = "program"
  /\ program.kind = "exits"
  /\ \E st \in WaitStatuses, file \in CoreFiles :
       /\ program' = [program EXCEPT !.file = file]
       /\ Die(st)
  /\ UNCHANGED <<harnessVars, eq, fb, parseRun, auxVars, runnerVars>>

\* The kernel delivers the pending SIGALRM; its disposition is the default in
\* the child and stays so across execve, so the process is terminated.
AlarmFires ==
  /\ child.alarm # None
  /\ child.pc \in {"armed", "program"}
  /\ Die(Signaled("SIGALRM"))
  /\ UNCHANGED <<harnessVars, eq, fb, parseRun, auxVars, runnerVars, program>>

\* The other thread's child that inherited the write end terminates (it runs
\* under an alarm of its own).
SiblingExit ==
  /\ "sibling" \in pipe.writers
  /\ pipe' = [pipe EXCEPT !.writers = pipe.writers \ {"sibling"}]
  /\ UNCHANGED <<harnessVars, eq, fb, parseRun, auxVars, runnerVars, child, program>>

NextLaunch ==
  \/ Fork
  \/ ParentCloseWrite
  \/ ParentRead
  \/ ParentWait
  \/ ChildChdir
  \/ ChildRedirect
  \/ ChildClose
  \/ ChildAlarm
  \/ ChildExec
  \/ ProgramWrite
  \/ ProgramExit
  \/ AlarmFires
  \/ SiblingExit

\* The parent thread and the child process are scheduled, a pending alarm is
\* delivered and the other thread's child ends; the target program itself is
\* under no obligation to write or to end.
SpecLaunch ==
  /\ InitLaunch
  /\ [][NextLaunch]_vars
  /\ WF_vars(Fork)
  /\ WF_vars(ParentCloseWrite)
  /\ WF_vars(ParentRead)
  /\ WF_vars(ParentWait)
  /\ WF_vars(ChildChdir)
  /\ WF_vars(ChildRedirect)
  /\ WF_vars(ChildClose)
  /\ WF_vars(ChildAlarm)
  /\ WF_vars(ChildExec)
  /\ WF_vars(AlarmFires)
  /\ WF_vars(SiblingExit)

\* ------------------------------------------------------------ parse runs

\* SpecToken (parse_spec.rs), as the lexer hands tokens to the parser.
Tok(kind) == [k |-> kind]
TokReturn(x) == [k |-> "Return", val |-> x]
TokImplementation(name) == [k |-> "Implementation", name |-> name]

\* SpecToken::is_behavior.
is_behavior(tok) == tok.k \in PlainTags \cup {"Return"}

\* Result<T, SpecParseError> of the parser's methods: the value with the
\* tokens the lexer still holds, or the error.
POk(value, rest) == [ok |-> TRUE, value |-> value, rest |-> rest]
PErr(error, msg) == [ok |-> FALSE, error |-> error, msg |-> msg]

\* A plausible slip: the binding powers of ',' and 'or' exchanged.
infix_binding_power_swapped(tok) ==
  CASE tok.k = "Or" -> Some(<<3, 4>>)
    [] tok.k = "Comma" -> Some(<<1, 2>>)
    [] OTHER -> None

\* parse_implementation::infix_binding_power.
infix_binding_power(tok) ==
  CASE tok.k = "Or" -> Some(<<1, 2>>)
    [] tok.k = "Comma" -> Some(<<3, 4>>)
    [] OTHER -> None

\* parse_implementation::prefix_binding_power.
prefix_binding_power(tok) ==
  CASE tok.k = "Not" -> Some(5)
    [] OTHER -> None

\* SpecParser::parse_behavior.
parse_behavior(toks) ==
  IF toks = <<>> THEN PErr("UnexpectedEOF", "behavior")
  ELSE LET tok == Head(toks)
       IN  CASE tok.k \in PlainTags -> POk(Plain(tok.k), Tail(toks))
             [] tok.k = "Return" -> POk(Return(tok.val), Tail(toks))
             [] OTHER -> PErr("UnexpectedToken", "behavior")

RECURSIVE parse_implementation(_, _)
RECURSIVE infix_loop(_, _, _)

\* SpecParser::parse_implementation, lines 159-185: the loop over the infix
\* operators that follow lhs.
infix_loop(lhs, toks, min_bp) ==
  IF toks = <<>> THEN POk(lhs, toks)
  ELSE LET tok == Head(toks)
           bps == infix_binding_power(tok)
       IN  IF bps = None THEN POk(lhs, toks)
           ELSE IF bps[1][1] < min_bp THEN POk(lhs, toks)
           ELSE LET rhs == parse_implementation(Tail(toks), bps[1][2])
                IN  IF ~rhs.ok THEN rhs
                    ELSE infix_loop(IF tok.k = "Comma" THEN And(lhs, rhs.value)
                                    ELSE Or(lhs, rhs.value),
                                    rhs.rest, min_bp)

\* SpecParser::parse_implementation: an atom or a prefix operator with its
\* operand, then the infix loop.
parse_implementation(toks, min_bp) ==
  IF toks = <<>> THEN PErr("UnexpectedEOF", "implementation predicate")
  ELSE LET tok == Head(toks)
           lhs ==
             CASE tok.k = "Lib" -> POk(Library, Tail(toks))
               [] tok.k = "Typechecked" -> POk(Typechecked, Tail(toks))
               [] tok.k = "GarbageCollected" -> POk(GarbageCollected, Tail(toks))
               [] tok.k = "Safe" -> POk(Safe, Tail(toks))
               [] tok.k = "False" -> POk(False, Tail(toks))
               [] tok.k = "Implementation" -> POk(ImplementationName(tok.name), Tail(toks))
               [] OTHER ->
                    IF prefix_binding_power(tok) = None
                    THEN PErr("UnexpectedToken",
                              "implementation predicate type or prefix operator")
                    ELSE LET operand ==
                               parse_implementation(Tail(toks), prefix_binding_power(tok)[1])
                         IN  IF ~operand.ok THEN operand
                             ELSE POk(Not(operand.value), operand.rest)
       IN  IF ~lhs.ok THEN lhs ELSE infix_loop(lhs.value, lhs.rest, min_bp)

\* SpecParser::parse_spec.
RECURSIVE parse_spec(_)
parse_spec(toks) ==
  IF toks = <<>> THEN PErr("UnexpectedEOF", "implementation or behavior")
  ELSE IF is_behavior(Head(toks))
  THEN LET behavior == parse_behavior(toks)
       IN  IF ~behavior.ok THEN behavior
           ELSE POk(SpecBehavior(behavior.value), behavior.rest)
  ELSE LET implementation == parse_implementation(toks, 0)
       IN  IF ~implementation.ok THEN implementation
           ELSE IF implementation.rest = <<>>
           THEN PErr("UnexpectedEOF", "'=>' between implementation and behavior")
           ELSE IF Head(implementation.rest) # Tok("FatArrow")
           THEN PErr("UnexpectedToken", "'=>' between implementation and behavior")
           ELSE LET consequent == parse_spec(Tail(implementation.rest))
                IN  IF ~consequent.ok THEN consequent
                    ELSE POk(Implication(implementation.value, consequent.value),
                             consequent.rest)

\* A plausible slip: each parsed entry is put in front of the earlier ones.
RECURSIVE parse_loop_prepend(_, _)
parse_loop_prepend(toks, parsed) ==
  LET spec == parse_spec(toks)
  IN  IF ~spec.ok THEN spec
      ELSE IF spec.rest = <<>> THEN POk(<<spec.value>> \o parsed, <<>>)
      ELSE IF Head(spec.rest) = Tok("Semicolon")
      THEN parse_loop_prepend(Tail(spec.rest), <<spec.value>> \o parsed)
      ELSE PErr("UnexpectedToken", "semicolon to separate tests")

\* SpecParser::parse, lines 53-66: the loop that collects the entries.
RECURSIVE parse_loop(_, _)
parse_loop(toks, parsed) ==
  LET spec == parse_spec(toks)
  IN  IF ~spec.ok THEN spec
      ELSE IF spec.rest = <<>> THEN POk(Append(parsed, spec.value), <<>>)
      ELSE IF Head(spec.rest) = Tok("Semicolon")
      THEN parse_loop(Tail(spec.rest), Append(parsed, spec.value))
      ELSE PErr("UnexpectedToken", "semicolon to separate tests")

\* parse_spec::parse and SpecParser::parse.
parse(input, options) ==
  IF options.require_test_marker
  THEN IF input # <<>> /\ Head(input) = Tok("TestStartMarker")
       THEN parse_loop(Tail(input), <<>>)
       ELSE PErr("NotSpec", "")
  ELSE parse_loop(input, <<>>)

\* The tokens of the predicates parse is run on: four of the atoms and the
\* three operators.
PredAlphabet ==
  {Tok("Safe"), Tok("Lib"), Tok("False"), TokImplementation("cc0"),
   Tok("Not"), Tok("Comma"), Tok("Or")}

\* The clauses parse is run on are p1 => ... => pn => behavior with these
\* predicates and behaviors ("safe => segfault; !safe => runs" is one of the
\* inputs of parser_tests::test).
ClausePreds == {<<Tok("Safe")>>, <<Tok("Not"), Tok("Safe")>>}
ClauseBehaviors == {Tok("Segfault"), Tok("Runs")}
Clauses == [preds : SeqsOf(ClausePreds, 0, MaxChain), b : ClauseBehaviors]

\* The token string of a clause, and of a list of clauses separated by ';'.
RECURSIVE RenderClause(_, _)
RenderClause(preds, b) ==
  IF preds = <<>> THEN <<b>>
  ELSE Head(preds) \o <<Tok("FatArrow")>> \o RenderClause(Tail(preds), b)

RECURSIVE RenderClauses(_)
RenderClauses(cs) ==
  IF Len(cs) = 1 THEN RenderClause(cs[1].preds, cs[1].b)
  ELSE RenderClause(cs[1].preds, cs[1].b) \o <<Tok("Semicolon")>> \o RenderClauses(Tail(cs))

\* One input of parse made of one predicate, then => return 5, to be read
\* without the marker.
PredInput(toks) ==
  [input |-> toks \o <<Tok("FatArrow"), TokReturn(Some(5))>>,
   options |-> [require_test_marker |-> FALSE],
   from |-> [kind |-> "pred", pred |-> toks, clauses |-> <<>>, marker |-> FALSE],
   result |-> None]

\* One input of parse made of a list of clauses, with or without the //test
\* marker, to be read with or without require_test_marker.
ClausesInput(cs, m, r) ==
  [input |-> (IF m THEN <<Tok("TestStartMarker")>> ELSE <<>>) \o RenderClauses(cs),
   options |-> [require_test_marker |-> r],
   from |-> [kind |-> "clauses", pred |-> <<>>, clauses |-> cs, marker |-> m],
   result |-> None]

\* The tokens of the arbitrary token strings parse is run on.
RawAlphabet ==
  {Tok("TestStartMarker"), Tok("Safe"), Tok("FatArrow"), Tok("Runs"), Tok("Semicolon")}

\* One input of parse made of any tokens (none included), to be read with or
\* without require_test_marker.
RawInput(toks, r) ==
  [input |-> toks,
   options |-> [require_test_marker |-> r],
   from |-> [kind |-> "raw", pred |-> <<>>, clauses |-> <<>>, marker |-> FALSE],
   result |-> None]

InitParse ==
  /\ HarnessOff
  /\ eq = EqIdle
  /\ fb = FbIdle
  /\ AuxOff
  /\ \/ \E n \in 1..MaxPredLen : \E toks \in [1..n -> PredAlphabet] :
          parseRun = PredInput(toks)
     \/ \E n \in 1..MaxClauses : \E cs \in [1..n -> Clauses] :
          \E m \in BOOLEAN, r \in BOOLEAN : parseRun = ClausesInput(cs, m, r)
     \/ \E n \in 0..MaxRawLen : \E toks \in [1..n -> RawAlphabet] :
          \E r \in BOOLEAN : parseRun = RawInput(toks, r)
  /\ RunnerOff
  /\ LaunchOff

\* One call of parse_spec::parse.
ApplyParse ==
  /\ parseRun.from.kind # "none"
  /\ parseRun.result = None
  /\ parseRun' = [parseRun EXCEPT !.result = Some(parse(parseRun.input, parseRun.options))]
  /\ UNCHANGED <<harnessVars, eq, fb, auxVars, runnerVars, launchVars>>

NextParse == ApplyParse

SpecParse == InitParse /\ [][NextParse]_vars

\* --------------------------------------------------------- discover runs

\* The lines of the sources.test files discover is run on: a well-formed
\* line, a line without '~' and a line whose spec does not parse.  Every
\* directory has a sources.test; blank lines are left out.
ManifestLines ==
  {[tilde |-> TRUE, spec |-> <<Tok("Runs")>>],
   [tilde |-> FALSE, spec |-> <<Tok("Runs")>>],
   [tilde |-> TRUE, spec |-> <<Tok("Safe"), Tok("FatArrow")>>]}

InitDiscover ==
  /\ HarnessOff
  /\ eq = EqIdle
  /\ fb = FbIdle
  /\ parseRun = ParseIdle
  /\ RunnerOff
  /\ LaunchOff
  /\ sizeRun = SizeIdle
  /\ implRun = ImplIdle
  /\ compileRun = CompileIdle
  /\ \E n \in 1..MaxDirs : \E dirs \in [1..n -> SeqsOf(ManifestLines, 0, MaxLines)] :
       discovery = [pc |-> "reading", dirs |-> dirs, dir |-> 1, lineno |-> 1,
                    local |-> <<>>, tests |-> <<>>, warned |-> <<>>]

\* discover, after discover_directory returned: the next directory.
NextDirectory(d) == [d EXCEPT !.dir = @ + 1, !.lineno = 1, !.local = <<>>]

\* read_sources_file: one iteration of the loop over the lines.  A line
\* without '~' or with a spec that does not parse makes `?` return the error;
\* discover prints the warning and goes on with the next directory.
ReadSourcesLine ==
  /\ discovery.pc = "reading"
  /\ discovery.dir <= Len(discovery.dirs)
  /\ discovery.lineno <= Len(discovery.dirs[discovery.dir])
  /\ LET line == discovery.dirs[discovery.dir][discovery.lineno]
         specs == parse(line.spec, [require_test_marker |-> FALSE])
     IN  IF ~line.tilde \/ ~specs.ok
         THEN discovery' = NextDirectory([discovery EXCEPT !.warned = Append(@, discovery.dir)])
         ELSE discovery' =
                [discovery EXCEPT
                   !.local = Append(@, [dir |-> discovery.dir, lineno |-> discovery.lineno,
                                        specs |-> specs.value]),
                   !.lineno = @ + 1]
  /\ UNCHANGED <<harnessVars, eq, fb, parseRun, runnerVars, launchVars, sizeRun, implRun,
                 compileRun>>

\* read_sources_file returns Ok(tests) after the last line; discover extends
\* its own tests with them.
ReadSourcesEnd ==
  /\ discovery.pc = "reading"
  /\ discovery.dir <= Len(discovery.dirs)
  /\ discovery.lineno > Len(discovery.dirs[discovery.dir])
  /\ discovery' = NextDirectory([discovery EXCEPT !.tests = @ \o discovery.local])
  /\ UNCHANGED <<harnessVars, eq, fb, parseRun, runnerVars, launchVars, sizeRun, implRun,
                 compileRun>>

\* discover returns Ok(tests) after the last directory.
DiscoverReturn ==
  /\ discovery.pc = "reading"
  /\ discovery.dir > Len(discovery.dirs)
  /\ discovery' = [discovery EXCEPT !.pc = "done"]
  /\ UNCHANGED <<harnessVars, eq, fb, parseRun, runnerVars, launchVars, sizeRun, implRun,
                 compileRun>>

NextDiscover == ReadSourcesLine \/ ReadSourcesEnd \/ DiscoverReturn

SpecDiscover == InitDiscover /\ [][NextDiscover]_vars

\* ------------------------------------------------------- parse_size runs

\* A size argument is a tuple of characters.  "1" is the digit; "9.." stands
\* for a run of 61 nines (the literal of options_tests::test_parse_size_errors
\* that no u64 can hold) and counts as digits.
SizeChars == {"-", "1", "9..", " ", "k", "z"}
IsAsciiDigit(c) == c \in {"1", "9.."}

\* str::trim.
RECURSIVE TrimStart(_)
TrimStart(str) == IF str # <<>> /\ Head(str) = " " THEN TrimStart(Tail(str)) ELSE str
RECURSIVE TrimEnd(_)
TrimEnd(str) ==
  IF str # <<>> /\ str[Len(str)] = " " THEN TrimEnd(SubSeq(str, 1, Len(str) - 1)) ELSE str
Trim(str) == TrimEnd(TrimStart(str))

\* An f64: its sign and its magnitude, which is a natural number or, when
\* huge is set, a value above u64::MAX.
F64(neg, huge, mag) == [neg |-> neg, huge |-> huge, mag |-> mag]

\* A u64: a natural number, or u64::MAX when max is set.
U64(n) == [max |-> FALSE, n |-> n]
U64_MAX == [max |-> TRUE, n |-> 0]

\* The value of a string of digits.
RECURSIVE DecimalValue(_)
DecimalValue(digits) ==
  IF digits = <<>> THEN F64(FALSE, FALSE, 0)
  ELSE LET init == DecimalValue(SubSeq(digits, 1, Len(digits) - 1))
       IN  IF init.huge \/ digits[Len(digits)] = "9.." THEN F64(FALSE, TRUE, 0)
           ELSE F64(FALSE, FALSE, 10 * init.mag + 1)

\* str::parse::<f64> on these characters: an optional sign, then digits;
\* anything else is an error (None).
ParseF64(n) ==
  LET neg == n # <<>> /\ Head(n) = "-"
      digits == IF neg THEN Tail(n) ELSE n
  IN  IF digits = <<>> \/ \E i \in DOMAIN digits : ~IsAsciiDigit(digits[i]) THEN None
      ELSE LET v == DecimalValue(digits) IN Some(F64(neg, v.huge, v.mag))

\* The factor of a unit, None for an unknown unit.
UnitFactor(unit) ==
  CASE unit \in {<<"g">>, <<"g", "b">>} -> Some(1024 * 1024 * 1024)
    [] unit \in {<<"m">>, <<"m", "b">>} -> Some(1024 * 1024)
    [] unit \in {<<"k">>, <<"k", "b">>} -> Some(1024)
    [] unit = <<>> -> Some(1)
    [] OTHER -> None

\* `bytes as u64`: the cast saturates, a negative value becomes 0.
AsU64(f) ==
  IF f.neg THEN U64(0)
  ELSE IF f.huge THEN U64_MAX
  ELSE U64(f.mag)

\* Ok(value) of a Result whose value is a single thing.
OkOf(value) == [t |-> "Ok", value |-> value]

\* options::parse_size.  A string without a digit is handed to
\* str::parse::<u64>, which fails on it.
parse_size(arg) ==
  LET size == Trim(arg)
      at == {i \in DOMAIN size : IsAsciiDigit(size[i])}
  IN  IF at = {}
      THEN Err("Invalid size")
      ELSE LET suffix_pos == (CHOOSE i \in at : \A j \in at : j <= i) + 1
               n == SubSeq(size, 1, suffix_pos - 1)
               unit == Trim(SubSeq(size, suffix_pos, Len(size)))
           IN  IF n = <<>> THEN Err("No number found")
               ELSE IF ParseF64(n) = None THEN Err("invalid float literal")
               ELSE IF UnitFactor(unit) = None THEN Err("Invalid size unit")
               ELSE LET f == ParseF64(n)[1]
                    IN  OkOf(AsU64(F64(f.neg, f.huge, f.mag * UnitFactor(unit)[1])))

InitSize ==
  /\ HarnessOff
  /\ eq = EqIdle
  /\ fb = FbIdle
  /\ parseRun = ParseIdle
  /\ RunnerOff
  /\ LaunchOff
  /\ discovery = DiscoveryIdle
  /\ implRun = ImplIdle
  /\ compileRun = CompileIdle
  /\ \E n \in 0..MaxSizeLen : \E size \in [1..n -> SizeChars] :
       sizeRun = [pc |-> "ready", size |-> size, result |-> None]

\* One call of parse_size.
ApplySize ==
  /\ sizeRun.pc = "ready"
  /\ sizeRun' = [sizeRun EXCEPT !.pc = "done", !.result = Some(parse_size(sizeRun.size))]
  /\ UNCHANGED <<harnessVars, eq, fb, parseRun, runnerVars, launchVars, discovery, implRun,
                 compileRun>>

NextSize == ApplySize

SpecSize == InitSize /\ [][NextSize]_vars

\* ------------------------------------------------- executer constructors

\* A path is the tuple of its components.  C0_HOME, and the tools a
\* toolchain home can hold.
C0Home == <<"opt", "c0">>
ToolFiles ==
  {C0Home \o <<"bin", "cc0">>, C0Home \o <<"vm", "c0vm">>, C0Home \o <<"bin", "coin-exec">>}

\* The Options the executers are built from (options.rs): the ceilings are
\* pairwise different numbers.
OptionsSet ==
  [c0_home : {C0Home}, test_time : {10, 11}, test_memory : {2048},
   compilation_time : {20, 21}, compilation_mem : {4096}]

\* implementations::make_cstr_path, files being the regular files that exist.
make_cstr_path(base, path, files) ==
  LET extended == base \o <<"bin", "cc0">>
  IN  IF extended \notin files THEN Err("is not a file") ELSE OkOf(extended)

\* CC0Executer::new, C0VMExecuter::new and CoinExecuter::new.
NewExecuter(kind, options, files) ==
  LET cc0_path == make_cstr_path(options.c0_home, <<"bin", "cc0">>, files)
      c0vm_path == make_cstr_path(options.c0_home, <<"vm", "c0vm">>, files)
      coin_path == make_cstr_path(options.c0_home, <<"bin", "coin-exec">>, files)
  IN  CASE kind = "cc0" ->
             IF cc0_path.t = "Err" THEN cc0_path
             ELSE [t |-> "Ok", cc0_path |-> cc0_path.value,
                   cc0_memory |-> options.compilation_mem,
                   cc0_time |-> options.compilation_time,
                   test_memory |-> options.test_memory, test_time |-> options.test_time]
        [] kind = "c0vm" ->
             IF cc0_path.t = "Err" THEN cc0_path
             ELSE IF c0vm_path.t = "Err" THEN c0vm_path
             ELSE [t |-> "Ok", cc0_path |-> cc0_path.value,
                   cc0_memory |-> options.compilation_mem,
                   cc0_time |-> options.compilation_time,
                   c0vm_path |-> c0vm_path.value,
                   test_memory |-> options.test_memory, test_time |-> options.test_time]
        [] kind = "coin" ->
             IF coin_path.t = "Err" THEN coin_path
             ELSE [t |-> "Ok", coin_path |-> coin_path.value,
                   test_time |-> options.test_time, test_memory |-> options.test_memory]

\* The arguments of the call of compile in CC0Executer::run_test and in
\* C0VMExecuter::run_test, in the order they are passed.
compile_call(kind, self, args) ==
  IF kind = "cc0" THEN <<self.cc0_path, args, self.cc0_memory, self.cc0_time>>
  ELSE <<self.cc0_path, args, self.cc0_time, self.cc0_memory>>

InitImpl ==
  /\ HarnessOff
  /\ eq = EqIdle
  /\ fb = FbIdle
  /\ parseRun = ParseIdle
  /\ RunnerOff
  /\ LaunchOff
  /\ discovery = DiscoveryIdle
  /\ sizeRun = SizeIdle
  /\ compileRun = CompileIdle
  /\ \E kind \in Executers, options \in OptionsSet, files \in SUBSET ToolFiles :
       implRun = [pc |-> "start", kind |-> kind, options |-> options, files |-> files,
                  self |-> NoResult, compile |-> <<>>]

\* The constructor of the chosen executer runs.
New ==
  /\ implRun.pc = "start"
  /\ LET self == NewExecuter(implRun.kind, implRun.options, implRun.files)
     IN  implRun' = [implRun EXCEPT !.self = self,
                                    !.pc = IF self.t = "Ok" THEN "built" ELSE "failed"]
  /\ UNCHANGED <<harnessVars, eq, fb, parseRun, runnerVars, launchVars, discovery, sizeRun,
                 compileRun>>

\* run_test of a compiling executer reaches its call of compile.
RunTestCompile ==
  /\ implRun.pc = "built"
  /\ implRun.kind # "coin"
  /\ implRun' = [implRun EXCEPT !.pc = "compiling",
                   !.compile = compile_call(implRun.kind, implRun.self, <<"-o">>)]
  /\ UNCHANGED <<harnessVars, eq, fb, parseRun, runnerVars, launchVars, discovery, sizeRun,
                 compileRun>>

NextImpl == New \/ RunTestCompile

SpecImpl == InitImpl /\ [][NextImpl]_vars

\* ------------------------------------------ compile, system call by call

\* The compilers compile is run on: one that ends on its own and one that
\* never does.
CompilerKinds == {"exits", "loops"}

\* compile up to fork: the capture pipe exists, nothing is forked yet.
\* `sup` is the supervising child, `cc` the compiler it forks; writers are
\* the processes that hold the write end of the capture pipe.
InitCompile ==
  /\ HarnessOff
  /\ eq = EqIdle
  /\ fb = FbIdle
  /\ parseRun = ParseIdle
  /\ RunnerOff
  /\ LaunchOff
  /\ discovery = DiscoveryIdle
  /\ sizeRun = SizeIdle
  /\ implRun = ImplIdle
  /\ \E kind \in CompilerKinds :
       compileRun =
         [pc |-> "fork", ret |-> NoResult, writers |-> {"parent"},
          sup |-> [pc |-> "none", child_pid |-> None, handler |-> FALSE, armed |-> FALSE,
                   status |-> NotStarted],
          cc |-> [pc |-> "none", kind |-> kind, group |-> FALSE, status |-> NotStarted]]

CompileUnchanged ==
  UNCHANGED <<harnessVars, eq, fb, parseRun, runnerVars, launchVars, discovery, sizeRun,
              implRun>>

\* compile, the parent: fork; read_from_pipe closes the write end and reads
\* until end-of-stream, which comes when no process holds the write end;
\* waitpid returns once the supervising child has ended, and the match on its
\* status gives the result.
compile_parent ==
  /\ \/ /\ compileRun.pc = "fork"
        /\ compileRun' = [compileRun EXCEPT !.pc = "close_write",
                                            !.writers = @ \cup {"sup"},
                                            !.sup.pc = "setup",
                                            !.sup.status = Running]
     \/ /\ compileRun.pc = "close_write"
        /\ compileRun' = [compileRun EXCEPT !.pc = "read", !.writers = @ \ {"parent"}]
     \/ /\ compileRun.pc = "read"
        /\ compileRun.writers = {}
        /\ compileRun' = [compileRun EXCEPT !.pc = "waitpid"]
     \/ /\ compileRun.pc = "waitpid"
        /\ compileRun.sup.pc = "zombie"
        /\ compileRun' = [compileRun EXCEPT
                            !.pc = "done",
                            !.ret = compile_classify(compileRun.sup.status, "")]
  /\ CompileUnchanged

\* compile, the supervising child: close(read_pipe), redirect_io and
\* sigaction; fork; child_pid = Some(child); alarm::set; waitpid on the
\* compiler, then exit with its code or raise its signal.
compile_supervisor ==
  /\ \/ /\ compileRun.sup.pc = "setup"
        /\ compileRun' = [compileRun EXCEPT !.sup.pc = "fork", !.sup.handler = TRUE]
     \/ /\ compileRun.sup.pc = "fork"
        /\ compileRun' = [compileRun EXCEPT !.sup.pc = "set_child_pid",
                                            !.writers = @ \cup {"cc"},
                                            !.cc.pc = "setpgid",
                                            !.cc.status = Running]
     \/ /\ compileRun.sup.pc = "set_child_pid"
        /\ compileRun' = [compileRun EXCEPT !.sup.pc = "alarm", !.sup.child_pid = Some("cc")]
     \/ /\ compileRun.sup.pc = "alarm"
        /\ compileRun' = [compileRun EXCEPT !.sup.pc = "waitpid", !.sup.armed = TRUE]
     \/ /\ compileRun.sup.pc = "waitpid"
        /\ compileRun.cc.pc = "zombie"
        /\ compileRun' = [compileRun EXCEPT !.sup.pc = "zombie",
                                            !.sup.status = compileRun.cc.status,
                                            !.sup.armed = FALSE,
                                            !.writers = @ \ {"sup"},
                                            !.cc.pc = "reaped"]
  /\ CompileUnchanged

\* The alarm goes off in the supervising child and alarm_handler runs:
\* killpg(child_pid, SIGTERM) ends the processes of the group whose id is the
\* compiler's pid, a group that exists once the compiler has called setpgid
\* (the error of killpg is ignored); then the default action is restored and
\* SIGALRM raised, which ends the supervising child.  An unset child_pid makes
\* unwrap panic.
alarm_handler ==
  /\ compileRun.sup.armed
  /\ compileRun.sup.handler
  /\ compileRun.sup.pc \notin {"none", "zombie"}
  /\ IF compileRun.sup.child_pid = None
     THEN compileRun' = [compileRun EXCEPT !.sup.pc = "zombie",
                                           !.sup.status = Exited(RUST_PANIC_CODE),
                                           !.sup.armed = FALSE,
                                           !.writers = @ \ {"sup"}]
     ELSE IF compileRun.cc.group /\ compileRun.cc.pc \in {"execvp", "running"}
     THEN compileRun' = [compileRun EXCEPT !.sup.pc = "zombie",
                                           !.sup.status = Signaled("SIGALRM"),
                                           !.sup.armed = FALSE,
                                           !.writers = @ \ {"sup", "cc"},
                                           !.cc.pc = "zombie",
                                           !.cc.status = Signaled("SIGTERM")]
     ELSE compileRun' = [compileRun EXCEPT !.sup.pc = "zombie",
                                           !.sup.status = Signaled("SIGALRM"),
                                           !.sup.armed = FALSE,
                                           !.writers = @ \ {"sup"}]
  /\ CompileUnchanged

\* compile, the forked compiler: setpgid(0, 0); execvp, after whose failure
\* the process exits with EXEC_FAILURE_CODE; a compiler that ends on its own
\* exits.
compile_compiler ==
  /\ \/ /\ compileRun.cc.pc = "setpgid"
        /\ compileRun' = [compileRun EXCEPT !.cc.pc = "execvp", !.cc.group = TRUE]
     \/ /\ compileRun.cc.pc = "execvp"
        /\ \/ compileRun' = [compileRun EXCEPT !.cc.pc = "running"]
           \/ compileRun' = [compileRun EXCEPT !.cc.pc = "zombie",
                                               !.cc.status = Exited(EXEC_FAILURE_CODE),
                                               !.writers = @ \ {"cc"}]
     \/ /\ compileRun.cc.pc = "running"
        /\ compileRun.cc.kind = "exits"
        /\ \E code \in {0, 1, CC0_GCC_FAILURE_CODE} :
             compileRun' = [compileRun EXCEPT !.cc.pc = "zombie",
                                              !.cc.status = Exited(code),
                                              !.writers = @ \ {"cc"}]
  /\ CompileUnchanged

NextCompile == compile_parent \/ compile_supervisor \/ alarm_handler \/ compile_compiler

\* Every process is scheduled and an armed alarm goes off.
SpecCompile ==
  /\ InitCompile
  /\ [][NextCompile]_vars
  /\ WF_vars(compile_parent)
  /\ WF_vars(compile_supervisor)
  /\ WF_vars(alarm_handler)
  /\ WF_vars(compile_compiler)

\* =============================================================== claims

\* The executer answered the running test with a Behavior.
Answered == pc = "done" /\ ret.t = "Ok"

\* execute_with_args got as far as classifying the status of the test
\* process: the process was reaped and reading the result file did not end
\* the call (deleting a result file that was read can fail, which returns Err
\* before the status is looked at).
Classified == pc = "done" /\ execProc.st \in {"Exited", "Signaled"} /\ ~removeFails

\* C1: run_test returns Success exactly when the actual Behavior equals every
\* resolved Behavior; otherwise it returns a Mismatch whose expected field is
\* the first resolved Behavior, in entry order, that the actual one does not
\* equal, and whose actual and output fields are the executer's.
T_C1 ==
  Answered =>
    LET bs == Behaviors_of_test
        actual == ret.behavior
    IN  /\ outcome = Success <=> \A i \in 1..Len(bs) : BehaviorEq(actual, bs[i])
        /\ outcome # Success =>
             /\ outcome.t = "Mismatch"
             /\ \E i \in 1..Len(bs) :
                  /\ ~BehaviorEq(actual, bs[i])
                  /\ \A j \in 1..(i - 1) : BehaviorEq(actual, bs[j])
                  /\ outcome.expected = bs[i]
             /\ outcome.actual = actual
             /\ outcome.output = ret.output

\* C1 witness: two entries resolve to different Behaviors, the actual one
\* equals neither, and the first is reported together with the output.
W_C1 ==
  /\ Answered
  /\ Len(Behaviors_of_test) = 2
  /\ Behaviors_of_test[1] # Behaviors_of_test[2]
  /\ ~BehaviorEq(ret.behavior, Behaviors_of_test[1])
  /\ ~BehaviorEq(ret.behavior, Behaviors_of_test[2])
  /\ outcome = Mismatch(Behaviors_of_test[1], ret.behavior, "text")

\* C2: when no top-level entry resolves, run_test returns Success and the
\* executer is never called: no compiler and no test process is started.
T_C2 ==
  Behaviors_of_test = <<>> =>
    /\ ~invoked
    /\ compileProc = NotStarted
    /\ execProc = NotStarted
    /\ ret = NoResult
    /\ pc \in {"idle", "done"}
    /\ pc = "done" => outcome = Success

\* C2 witness: run_test has returned for a test none of whose entries resolve.
W_C2 ==
  /\ pc = "done"
  /\ Behaviors_of_test = <<>>
  /\ Len(test.specs) = 2
  /\ outcome = Success

\* Every predicate of the chain p1 => ... => pn => b holds for the executer.
RECURSIVE AllPredicatesTrue(_, _)
AllPredicatesTrue(spec, properties) ==
  IF spec.kind = "Behavior" THEN TRUE
  ELSE /\ matches_predicate(spec.predicate, properties)
       /\ AllPredicatesTrue(spec.consequent, properties)

\* Some predicate of the chain holds for the executer.
RECURSIVE SomePredicateTrue(_, _)
SomePredicateTrue(spec, properties) ==
  IF spec.kind = "Behavior" THEN FALSE
  ELSE \/ matches_predicate(spec.predicate, properties)
       \/ SomePredicateTrue(spec.consequent, properties)

\* C3 as stated: the entry resolves to the chain's Behavior as soon as one
\* predicate of the chain is true, and contributes nothing only if none is.
CE_C3 ==
  fb.result # None =>
    LET found == fb.result[1]
        properties == Properties(fb.executer)
    IN  IF fb.spec.kind = "Behavior" \/ SomePredicateTrue(fb.spec, properties)
        THEN found = Some(ChainBehavior(fb.spec))
        ELSE found = None

\* C3 amended: the entry resolves to the chain's Behavior exactly when every
\* predicate of the chain is true (a bare Behavior resolves to itself), and
\* contributes nothing exactly when some predicate of the chain is false.
T_C3 ==
  fb.result # None =>
    LET found == fb.result[1]
        properties == Properties(fb.executer)
    IN  IF AllPredicatesTrue(fb.spec, properties)
        THEN found = Some(ChainBehavior(fb.spec))
        ELSE found = None

\* C3 witness: a chain of two predicates, the first false and the second
\* true, resolves to nothing.
W_C3 ==
  /\ fb.result = Some(None)
  /\ fb.spec.kind = "Implication"
  /\ fb.spec.consequent.kind = "Implication"
  /\ ~matches_predicate(fb.spec.predicate, Properties(fb.executer))
  /\ matches_predicate(fb.spec.consequent.predicate, Properties(fb.executer))

\* C4: a == b holds exactly when a or b is Skipped, or both are Return and
\* one carries no value or both carry the same value, or both are the same
\* variant without data; so Return(None) equals every Return, Skipped equals
\* everything, and Return(Some(x)) differs from Return(Some(y)) for x # y.
T_C4 ==
  eq.result # None =>
    LET a == eq.self
        b == eq.other
    IN  /\ eq.result[1] <=>
             \/ a.tag = "Skipped" \/ b.tag = "Skipped"
             \/ /\ a.tag = "Return" /\ b.tag = "Return"
                /\ (a.val = None \/ b.val = None \/ a.val = b.val)
             \/ a.tag = b.tag /\ a.tag \in PlainTags
        /\ (a = Return(None) /\ b.tag = "Return") => eq.result[1]
        /\ (b = Return(None) /\ a.tag = "Return") => eq.result[1]
        /\ (a = Skipped \/ b = Skipped) => eq.result[1]
        /\ (a.tag = "Return" /\ b.tag = "Return" /\ a.val # None /\ b.val # None
              /\ a.val # b.val) => ~eq.result[1]

\* C4 witness: Skipped has been compared with a Return carrying a value.
W_C4 ==
  /\ eq.result = Some(TRUE)
  /\ eq.self = Return(Some(1))
  /\ eq.other = Skipped

\* Two of the resolved Behaviors of the running test differ.
ResolvedDiffer ==
  \E i, j \in 1..Len(Behaviors_of_test) :
    ~BehaviorEq(Behaviors_of_test[i], Behaviors_of_test[j])

\* C5 as stated: when two entries resolve to differing Behaviors, run_test
\* reports a Mismatch for every Behavior the executer returns.
CE_C5 == (Answered /\ ResolvedDiffer) => outcome.t = "Mismatch"

\* C5 amended: when two entries resolve to Behaviors that differ (are unequal
\* under Behavior's equality), run_test reports a Mismatch for every Behavior
\* the executer returns except Skipped, which coin returns for a test with a
\* .c1 source and which equals every Behavior.
T_C5 ==
  (Answered /\ ResolvedDiffer /\ ret.behavior # Skipped) => outcome.t = "Mismatch"

\* C5 witness: the actual Behavior equals the first of two differing resolved
\* Behaviors and a Mismatch is reported on the second.
W_C5 ==
  /\ Answered
  /\ ResolvedDiffer
  /\ ret.behavior # Skipped
  /\ Len(Behaviors_of_test) = 2
  /\ BehaviorEq(ret.behavior, Behaviors_of_test[1])
  /\ outcome.t = "Mismatch"
  /\ outcome.expected = Behaviors_of_test[2]

CE_C7 ==
  (Classified /\ execProc \in {Signaled("SIGXCPU"), Signaled("SIGKILL")})
    => (ret.t = "Ok" /\ ret.behavior = Plain("InfiniteLoop"))

\* Byte k (0 the least significant) of the two's-complement form of v.
ByteOf(v, k) == (v \div (256 ^ k)) % 256

\* C8: in a call that reaches the classification, after exit code 0 a result
\* file of exactly 5 bytes gives
\* Return(Some(v)), v the native-endian signed 32-bit value of bytes 1..4
\* whatever byte 0 is, and a missing file or one of another length gives an
\* Err; after any other status the answer is the one given without a file.
T_C8 ==
  Classified =>
    /\ execProc = Exited(0) =>
         IF resultFile # None /\ Len(resultFile[1]) = 5
         THEN /\ ret.t = "Ok"
              /\ ret.output = execOutput
              /\ ret.behavior.tag = "Return"
              /\ ret.behavior.val # None
              /\ \A k \in 0..3 :
                   ByteOf(ret.behavior.val[1], k) =
                     resultFile[1][IF littleEndian THEN 2 + k ELSE 5 - k]
         ELSE ret.t = "Err"
    /\ execProc # Exited(0) =>
         ret = execute_with_args(execProc, execOutput, None, FALSE, littleEndian)

\* C8 witness: exit code 0 and a result file with a tag byte of 1 and the
\* bytes of -1 give Return(Some(-1)).
W_C8 ==
  /\ Classified
  /\ execProc = Exited(0)
  /\ resultFile = Some(<<1, 255, 255, 255, 255>>)
  /\ ret.t = "Ok"
  /\ ret.behavior = Return(Some(-1))

\* C9: for cc0 and c0vm, when the compiler exits with code 1 run_test returns
\* (the compiler's captured output, CompileError) and no test process is ever
\* started; a test process is started only after the compiler has exited
\* with code 0.
T_C9 ==
  executer \in {"cc0", "c0vm"} =>
    /\ compileProc = Exited(1) =>
         /\ pc = "done"
         /\ ret = Ok(compileOutput, Plain("CompileError"))
         /\ execProc = NotStarted
    /\ execProc # NotStarted => compileProc = Exited(0)

\* C9 witness: the compiler exited with code 1 after writing diagnostics.
W_C9 ==
  /\ executer = "c0vm"
  /\ compileProc = Exited(1)
  /\ compileOutput = "text"
  /\ ret = Ok("text", Plain("CompileError"))
  /\ execProc = NotStarted

\* C10: compile classifies the status of the compiler process: 0 is success,
\* 1 is a compile error carrying the captured output, and exit code 2, the
\* codes 100 and 101, a timeout signal and every other status are an Err,
\* never a compile error and never success.
T_C10 ==
  compileProc.st \in {"Exited", "Signaled"} =>
    /\ compileProc = Exited(0) => compiled = CompileOk
    /\ compileProc = Exited(1) => compiled = CompileFailed(compileOutput)
    /\ compileProc \notin {Exited(0), Exited(1)} => compiled.t = "Err"
    /\ compileProc \in {Exited(CC0_GCC_FAILURE_CODE), Exited(EXEC_FAILURE_CODE),
                        Exited(RUST_PANIC_CODE), Signaled("SIGALRM")}
         => (compiled.t = "Err" /\ ret = compiled /\ execProc = NotStarted)

\* C10 witness: the compiler exited with code 2 and compile returned an Err.
W_C10 ==
  /\ compileProc = Exited(CC0_GCC_FAILURE_CODE)
  /\ compiled = Err("CC0 failed to invoke GCC")
  /\ outcome = compiled

\* Some source file of the running test has a name ending in ".c1".
HasC1Source ==
  \E i \in 1..Len(test.sources) :
    LET s == test.sources[i]
        n == Len(s)
    IN  n >= 3 /\ s[n - 2] = "." /\ s[n - 1] = "c" /\ s[n] = "1"

\* C11: coin's run_test, called on a test with a source file ending in .c1,
\* returns Skipped without an error and without starting any process, and the
\* oracle then reports Success whatever the resolved Behaviors are; no
\* executer returns Skipped for a test without a .c1 source, and cc0 and c0vm
\* never return it.
T_C11 ==
  /\ (invoked /\ executer = "coin" /\ HasC1Source) =>
       /\ pc = "done"
       /\ ret.t = "Ok"
       /\ ret.behavior = Skipped
       /\ compileProc = NotStarted
       /\ execProc = NotStarted
       /\ outcome = Success
  /\ (Answered /\ ret.behavior = Skipped) => (executer = "coin" /\ HasC1Source)

\* C11 witness: coin skipped a C1 test whose two entries resolve to two
\* Behaviors no single run could satisfy, and the oracle reported Success.
W_C11 ==
  /\ executer = "coin"
  /\ HasC1Source
  /\ invoked
  /\ ret = Ok("<C1 test skipped>", Skipped)
  /\ Len(Behaviors_of_test) = 2
  /\ ~BehaviorEq(Behaviors_of_test[1], Behaviors_of_test[2])
  /\ outcome = Success

\* The thread is inside Executer::run_test (compiling or executing a test).
InExecution(tid) == workers[tid].pc \in {"compiling", "executing"}

\* The artifact paths the thread has generated for its running test.
ArtifactPaths(tid) ==
  {workers[tid].out_file[i] : i \in DOMAIN workers[tid].out_file}
    \cup {workers[tid].result_file[i] : i \in DOMAIN workers[tid].result_file}

\* C12: two executions that overlap in time (two threads of the pool both
\* inside Executer::run_test) have generated no path in common: their out
\* files (a.out<id>, a.out<id>.bc0) differ and their result files
\* (c0_result<id>) differ.
T_C12 ==
  \A t1, t2 \in DOMAIN workers :
    (t1 # t2 /\ InExecution(t1) /\ InExecution(t2)) =>
      ArtifactPaths(t1) \cap ArtifactPaths(t2) = {}

\* C12 witness: threads 7 and 17 execute compiled tests at the same time,
\* each with its own out file and its own result file.
W_C12 ==
  /\ DOMAIN workers = {7, 17}
  /\ workers[7].pc = "executing"
  /\ workers[17].pc = "executing"
  /\ Cardinality(ArtifactPaths(7) \cup ArtifactPaths(17)) = 4

\* run_tests is through with test t: its closure has ended.
Finished(t) == t \notin pending /\ \A tid \in DOMAIN workers : workers[tid].test # t

\* How many entries of each accumulator are about test t.
InFailures(t) == Cardinality({i \in DOMAIN failures : failures[i][1] = t})
InTimeouts(t) == Cardinality({i \in DOMAIN timeouts : timeouts[i] = t})
InErrors(t) == Cardinality({i \in DOMAIN errors : errors[i][1] = t})

\* C13: whatever the interleaving, every test is pending, held by exactly one
\* thread or finished; a returned outcome is the one checker::run_test gives
\* for that test and its own executer answer alone; a finished test with
\* Success is in no accumulator, one with a Mismatch has exactly one entry in
\* failures or timeouts and none elsewhere, one with an Err has exactly one
\* entry in errors, carrying that test's error, and none elsewhere; no
\* unfinished test has an entry; and the batch stops only when every test is
\* finished.
T_C13 ==
  /\ \A t \in 1..Len(tests) :
       /\ Cardinality({tid \in DOMAIN workers : workers[tid].test = t})
            = (IF t \in pending \/ Finished(t) THEN 0 ELSE 1)
       /\ testStatus[t] # NoResult =>
            testStatus[t] = (IF Behaviors_of(t) = <<>> THEN Success
                             ELSE check_result(Behaviors_of(t), testAnswer[t]))
       /\ ~Finished(t) => InFailures(t) + InTimeouts(t) + InErrors(t) = 0
       /\ Finished(t) =>
            /\ testStatus[t].t \in {"Success", "Mismatch", "Err"}
            /\ testStatus[t].t = "Success" =>
                 InFailures(t) + InTimeouts(t) + InErrors(t) = 0
            /\ testStatus[t].t = "Mismatch" =>
                 /\ InFailures(t) + InTimeouts(t) = 1
                 /\ InErrors(t) = 0
                 /\ InFailures(t) = 1 =>
                      \E i \in DOMAIN failures : failures[i] = <<t, testStatus[t]>>
            /\ testStatus[t].t = "Err" =>
                 /\ InErrors(t) = 1
                 /\ InFailures(t) + InTimeouts(t) = 0
                 /\ \E i \in DOMAIN errors : errors[i] = <<t, testStatus[t]>>
  /\ ~(ENABLED NextRunner) => \A t \in 1..Len(tests) : Finished(t)

\* C13 witness: the first test ended in an infrastructure error, the second
\* ran after it and was recorded as a failure.
W_C13 ==
  /\ Len(tests) = 2
  /\ Finished(1)
  /\ Finished(2)
  /\ errors = <<<<1, Err("CC0 failed to invoke GCC")>>>>
  /\ Len(failures) = 1
  /\ failures[1][1] = 2
  /\ timeouts = <<>>

\* C14: every Mismatch checker::run_test returns has is_timeout true exactly
\* when its actual Behavior is the variant InfiniteLoop (the actual Behavior
\* of a Mismatch is never Skipped), and run_tests records a finished test
\* with such a Mismatch in timeouts and not in failures, and one with any
\* other Mismatch in failures and not in timeouts.
T_C14 ==
  \A t \in 1..Len(tests) :
    testStatus[t].t = "Mismatch" =>
      /\ testStatus[t].actual # Skipped
      /\ is_timeout(testStatus[t]) <=> testStatus[t].actual.tag = "InfiniteLoop"
      /\ Finished(t) =>
           IF testStatus[t].actual.tag = "InfiniteLoop"
           THEN InTimeouts(t) = 1 /\ InFailures(t) = 0
           ELSE InTimeouts(t) = 0 /\ InFailures(t) = 1

\* C14 witness: a test expected to return 0 was killed by the alarm and is
\* recorded under timeouts; a test expected to loop returned 0 and is
\* recorded under failures.
W_C14 ==
  /\ Len(tests) = 2
  /\ Finished(1)
  /\ Finished(2)
  /\ testStatus[1] = Mismatch(Return(Some(0)), Plain("InfiniteLoop"), "")
  /\ testStatus[2] = Mismatch(Plain("InfiniteLoop"), Return(Some(0)), "")
  /\ timeouts = <<1>>
  /\ failures = <<<<2, testStatus[2]>>>>

\* C15: once a target program that never ends on its own is running,
\* execute_with_args eventually returns, and it returns InfiniteLoop with the
\* captured output: the alarm armed before execve terminates the program, the
\* drain of the pipe reaches end-of-stream and waitpid returns.
T_C15 ==
  (child.pc = "program" /\ program.kind = "loops")
    ~> (pc = "done" /\ ret = Ok(execOutput, Plain("InfiniteLoop")))

\* C15 witness: a looping program wrote output, was terminated by the alarm,
\* and execute_with_args returned (output, InfiniteLoop).
W_C15 ==
  /\ program.kind = "loops"
  /\ program.wrote
  /\ pc = "done"
  /\ execProc = Signaled("SIGALRM")
  /\ ret = Ok("text", Plain("InfiniteLoop"))

\* C18: whenever the target program is executing, the child has applied an
\* address-space ceiling and a CPU-time ceiling before execve.
CE_C18 ==
  child.pc = "program" =>
    /\ \E i \in DOMAIN child.setup : child.setup[i] = "setrlimit(RLIMIT_AS)"
    /\ \E i \in DOMAIN child.setup : child.setup[i] = "setrlimit(RLIMIT_CPU)"

\* The result file of the finished call is still in the working directory:
\* it was read and could not be deleted.
ResultFileLeft == resultFile # None /\ removeFails

\* C16: once the executer's run_test has returned, by whatever path, neither
\* the out_file nor the result file of that call is on disk (deletions that
\* themselves fail set aside).
CE_C16 ==
  (pc = "done" /\ invoked /\ ~removeFails /\ ~outRemoveFails)
    => (~outFileOnDisk /\ ~ResultFileLeft)

\* C17: a deletion that fails changes nothing in what run_test returns: the
\* answer after the test process was reaped is the one the same status,
\* output and result file give when every deletion succeeds.
CE_C17 ==
  (pc = "done" /\ execProc.st \in {"Exited", "Signaled"})
    => ret = execute_with_args(execProc, execOutput, resultFile, FALSE, littleEndian)

\* The reading of a predicate that the grammar's precedence prescribes,
\* computed without binding powers: split at the last 'or'; failing that at
\* the last ','; failing that strip a leading '!'; what is left is an atom.
AtomToks == {Tok("Safe"), Tok("Lib"), Tok("False"), TokImplementation("cc0")}
AtomOf(tok) ==
  CASE tok = Tok("Safe") -> Safe
    [] tok = Tok("Lib") -> Library
    [] tok = Tok("False") -> False
    [] OTHER -> ImplementationName(tok.name)
LastIndexOf(toks, tok) ==
  LET at == {i \in DOMAIN toks : toks[i] = tok}
  IN  IF at = {} THEN 0 ELSE CHOOSE i \in at : \A j \in at : j <= i

RECURSIVE WellFormedPred(_)
WellFormedPred(toks) ==
  LET o == LastIndexOf(toks, Tok("Or"))
      c == LastIndexOf(toks, Tok("Comma"))
  IN  IF toks = <<>> THEN FALSE
      ELSE IF o > 0
      THEN WellFormedPred(SubSeq(toks, 1, o - 1)) /\ WellFormedPred(SubSeq(toks, o + 1, Len(toks)))
      ELSE IF c > 0
      THEN WellFormedPred(SubSeq(toks, 1, c - 1)) /\ WellFormedPred(SubSeq(toks, c + 1, Len(toks)))
      ELSE IF Head(toks) = Tok("Not") THEN WellFormedPred(Tail(toks))
      ELSE Len(toks) = 1 /\ Head(toks) \in AtomToks

RECURSIVE RefPred(_)
RefPred(toks) ==
  LET o == LastIndexOf(toks, Tok("Or"))
      c == LastIndexOf(toks, Tok("Comma"))
  IN  IF o > 0
      THEN Or(RefPred(SubSeq(toks, 1, o - 1)), RefPred(SubSeq(toks, o + 1, Len(toks))))
      ELSE IF c > 0
      THEN And(RefPred(SubSeq(toks, 1, c - 1)), RefPred(SubSeq(toks, c + 1, Len(toks))))
      ELSE IF Head(toks) = Tok("Not") THEN Not(RefPred(Tail(toks)))
      ELSE AtomOf(Head(toks))

\* What parse returned for "<predicate> => return 5" when it is the single
\* entry with this predicate.
ParsedAs(p) ==
  parseRun.result = Some(POk(<<Implication(p, SpecBehavior(Return(Some(5))))>>, <<>>))

\* C19: prefix Not binds tightest, then ',' (And), then 'or' (Or): for all
\* atoms a, b, c, 'a or b, c' parses to Or(a, And(b, c)), 'a, b or c' to
\* Or(And(a, b), c) and '!a, b' to And(Not(a), b); more generally every
\* predicate of the grammar parses to its reading by precedence, and a token
\* string that is no predicate is rejected.
T_C19 ==
  (parseRun.from.kind = "pred" /\ parseRun.result # None) =>
    LET toks == parseRun.from.pred
    IN  /\ \A a \in AtomToks, b \in AtomToks, c \in AtomToks :
             /\ toks = <<a, Tok("Or"), b, Tok("Comma"), c>> =>
                  ParsedAs(Or(AtomOf(a), And(AtomOf(b), AtomOf(c))))
             /\ toks = <<a, Tok("Comma"), b, Tok("Or"), c>> =>
                  ParsedAs(Or(And(AtomOf(a), AtomOf(b)), AtomOf(c)))
             /\ toks = <<Tok("Not"), a, Tok("Comma"), b>> =>
                  ParsedAs(And(Not(AtomOf(a)), AtomOf(b)))
        /\ IF WellFormedPred(toks) THEN ParsedAs(RefPred(toks))
           ELSE ~parseRun.result[1].ok

\* "safe or lib, false => return 5" has been parsed.
W_C19 ==
  /\ parseRun.from.kind = "pred"
  /\ parseRun.from.pred = <<Tok("Safe"), Tok("Or"), Tok("Lib"), Tok("Comma"), Tok("False")>>
  /\ ParsedAs(Or(Safe, And(Library, False)))

\* The Behavior a behavior token stands for.
BehaviorOfToken(tok) == IF tok.k = "Return" THEN Return(tok.val) ELSE Plain(tok.k)

\* The entry a clause p1 => ... => pn => behavior stands for.
EntryOf(clause) ==
  MakeChain([i \in 1..Len(clause.preds) |-> RefPred(clause.preds[i])],
            BehaviorOfToken(clause.b))

Semicolons(toks) == Cardinality({i \in DOMAIN toks : toks[i] = Tok("Semicolon")})

\* C20: parse turns a well-formed spec string into one entry per
\* ';'-separated clause, in input order (k semicolons give k + 1 entries);
\* a bare behavior gives Spec::Behavior and p1 => p2 => behavior gives
\* Implication(p1, Implication(p2, Behavior)).
T_C20 ==
  (/\ parseRun.from.kind = "clauses"
   /\ parseRun.result # None
   /\ parseRun.from.marker = parseRun.options.require_test_marker) =>
    LET cs == parseRun.from.clauses
        res == parseRun.result[1]
    IN  /\ res.ok
        /\ Len(res.value) = Semicolons(parseRun.input) + 1
        /\ Len(res.value) = Len(cs)
        /\ \A i \in 1..Len(cs) :
             /\ res.value[i] = EntryOf(cs[i])
             /\ cs[i].preds = <<>> => res.value[i] = SpecBehavior(BehaviorOfToken(cs[i].b))
             /\ Len(cs[i].preds) = 2 =>
                  res.value[i] =
                    Implication(RefPred(cs[i].preds[1]),
                                Implication(RefPred(cs[i].preds[2]),
                                            SpecBehavior(BehaviorOfToken(cs[i].b))))

\* "//test safe => segfault; !safe => runs" has been parsed into its two
\* entries.
W_C20 ==
  /\ parseRun.from.kind = "clauses"
  /\ parseRun.options.require_test_marker
  /\ parseRun.input = <<Tok("TestStartMarker"), Tok("Safe"), Tok("FatArrow"), Tok("Segfault"),
                        Tok("Semicolon"), Tok("Not"), Tok("Safe"), Tok("FatArrow"), Tok("Runs")>>
  /\ parseRun.result =
       Some(POk(<<Implication(Safe, SpecBehavior(Plain("Segfault"))),
                  Implication(Not(Safe), SpecBehavior(Plain("Runs")))>>, <<>>))

\* What parse returned is the error e.
ParseError(e) == ~parseRun.result[1].ok /\ parseRun.result[1].error = e

\* C21: parse returns NotSpec for an empty input, in both modes, and for an
\* input lacking the required marker; an input that starts as a spec but is
\* syntactically wrong gets UnexpectedToken or UnexpectedEOF, never NotSpec.
\* (Violated: the empty input read without require_test_marker gets
\* UnexpectedEOF.)
CE_C21 ==
  (parseRun.from.kind = "raw" /\ parseRun.result # None) =>
    LET input == parseRun.input
        required == parseRun.options.require_test_marker
        lacksMarker == input = <<>> \/ Head(input) # Tok("TestStartMarker")
    IN  /\ input = <<>> => ParseError("NotSpec")
        /\ (required /\ lacksMarker) => ParseError("NotSpec")
        /\ (input # <<>> /\ ~(required /\ lacksMarker) /\ ~parseRun.result[1].ok) =>
             (ParseError("UnexpectedToken") \/ ParseError("UnexpectedEOF"))

\* A line of a sources.test that read_sources_file accepts.
WellFormedLine(line) ==
  line.tilde /\ parse(line.spec, [require_test_marker |-> FALSE]).ok

\* The test of line l of directory d is among the tests discover returned.
Discovered(d, l) ==
  \E i \in DOMAIN discovery.tests : discovery.tests[i].dir = d /\ discovery.tests[i].lineno = l

\* C22: a malformed line of a sources.test makes discovery skip only the
\* remainder of that file: the tests of the lines before it are returned, and
\* so are the tests of the other directories.
\* (Violated: the tests of the lines before the malformed one are dropped.)
CE_C22 ==
  discovery.pc = "done" =>
    \A d \in DOMAIN discovery.dirs : \A l \in DOMAIN discovery.dirs[d] :
      (\A k \in 1..l : WellFormedLine(discovery.dirs[d][k])) => Discovered(d, l)

\* The argument of parse_size without the surrounding blanks, its part up to
\* the last digit and the unit after it.
SizeArg == Trim(sizeRun.size)
SizeDigitsAt == {i \in DOMAIN SizeArg : IsAsciiDigit(SizeArg[i])}
SizeNumber ==
  IF SizeDigitsAt = {} THEN <<>>
  ELSE SubSeq(SizeArg, 1, CHOOSE i \in SizeDigitsAt : \A j \in SizeDigitsAt : j <= i)
SizeUnit == Trim(SubSeq(SizeArg, Len(SizeNumber) + 1, Len(SizeArg)))
AllDigits(str) == str # <<>> /\ \A i \in DOMAIN str : IsAsciiDigit(str[i])

\* C23: parse_size returns an error for an input that is empty, has a unit
\* but no number, has an unknown unit, is a negative number or is a number
\* too large for 64 bits.
\* (Violated: a negative number gives Ok(0), a number too large Ok(u64::MAX).)
CE_C23 ==
  sizeRun.pc = "done" =>
    LET isEmpty == SizeArg = <<>>
        noNumber == SizeArg # <<>> /\ SizeDigitsAt = {}
        unknownUnit == SizeDigitsAt # {} /\ SizeUnit \notin {<<>>, <<"k">>}
        negative == SizeNumber # <<>> /\ Head(SizeNumber) = "-" /\ AllDigits(Tail(SizeNumber))
        tooLarge == AllDigits(SizeNumber) /\ \E i \in DOMAIN SizeNumber : SizeNumber[i] = "9.."
    IN  (isEmpty \/ noNumber \/ unknownUnit \/ negative \/ tooLarge) =>
          sizeRun.result[1].t = "Err"

\* C24: each constructor resolves its tool under the toolchain home from the
\* components it passes to make_cstr_path: the compiler at bin/cc0, the
\* virtual machine at vm/c0vm, the interpreter at bin/coin-exec.
\* (Violated: make_cstr_path always joins bin/cc0.)
CE_C24 ==
  implRun.pc = "built" =>
    LET home == implRun.options.c0_home
        self == implRun.self
    IN  /\ implRun.kind \in {"cc0", "c0vm"} => self.cc0_path = home \o <<"bin", "cc0">>
        /\ implRun.kind = "c0vm" => self.c0vm_path = home \o <<"vm", "c0vm">>
        /\ implRun.kind = "coin" => self.coin_path = home \o <<"bin", "coin-exec">>

\* The two ceilings of a call of compile, by position.
Ceilings(call) == <<call[3], call[4]>>

\* C28: CC0Executer and C0VMExecuter pass the compilation ceilings to compile
\* in the same argument positions, so the same Options give the compiler the
\* same ceilings under both variants.
\* (Violated: one passes (memory, time), the other (time, memory).)
CE_C28 ==
  implRun.pc = "compiling" =>
    \A kind \in {"cc0", "c0vm"} :
      LET other == NewExecuter(kind, implRun.options, implRun.files)
      IN  other.t = "Ok" =>
            Ceilings(compile_call(kind, other, <<"-o">>)) = Ceilings(implRun.compile)

\* The predicates p1, ..., pn of a chain p1 => ... => pn => b, in order.
RECURSIVE ChainPredicates(_)
ChainPredicates(spec) ==
  IF spec.kind = "Behavior" THEN <<>>
  ELSE <<spec.predicate>> \o ChainPredicates(spec.consequent)

\* C25: find_behavior on a chain p1 => ... => pn => b returns b exactly when
\* every pi is true under the capability descriptor and nothing when one of
\* them is false; a bare behavior resolves to itself; what is returned is at
\* most one Behavior.
T_C25 ==
  fb.result # None =>
    LET found == fb.result[1]
        preds == ChainPredicates(fb.spec)
        falseAt == {i \in DOMAIN preds : ~matches_predicate(preds[i], Properties(fb.executer))}
    IN  /\ Len(found) <= 1
        /\ found # None <=> falseAt = {}
        /\ found # None => found[1] = ChainBehavior(fb.spec)
        /\ fb.spec.kind = "Behavior" => found = Some(fb.spec.b)

\* C25 witness: safe => !cc0_c0vm => div-by-zero has been resolved on cc0,
\* where both predicates are true.
W_C25 ==
  /\ fb.executer = "cc0"
  /\ fb.spec = Implication(Safe, Implication(Not(ImplementationName("cc0_c0vm")),
                                             SpecBehavior(Plain("DivZero"))))
  /\ fb.result = Some(Some(Plain("DivZero")))

\* Runs is among the Behaviors that apply to the running test.
ExpectsRuns == \E i \in DOMAIN Behaviors_of_test : Behaviors_of_test[i] = Plain("Runs")

\* C26: no executer returns Runs (nor Return(None)): the Behavior returned is
\* Return(Some(v)), Failure, CompileError, Segfault, InfiniteLoop, DivZero,
\* Abort or Skipped; hence a test to which the expectation Runs applies is a
\* Mismatch for every outcome but Skipped, a clean exit with a return value
\* included.
T_C26 ==
  ret.t = "Ok" =>
    /\ ret.behavior.tag \in
         {"Return", "Failure", "CompileError", "Segfault", "InfiniteLoop", "DivZero", "Abort",
          "Skipped"}
    /\ ret.behavior.tag = "Return" => ret.behavior.val # None
    /\ (pc = "done" /\ ExpectsRuns /\ ret.behavior # Skipped) => outcome.t = "Mismatch"

\* C26 witness: the only expectation is Runs, the program exited 0 with the
\* return value 0, and the test is a Mismatch against Runs.
W_C26 ==
  /\ pc = "done"
  /\ Behaviors_of_test = <<Plain("Runs")>>
  /\ ret.t = "Ok"
  /\ ret.behavior = Return(Some(0))
  /\ outcome.t = "Mismatch"
  /\ outcome.expected = Plain("Runs")

\* C27: in the summary Passed is the number of tests whose outcome was
\* Success, and Passed + Timeouts + Failed + Error is the number of tests.
\* (Violated: a test that timed out is counted as passed too.)
CE_C27 ==
  summary # None =>
    LET s == summary[1]
    IN  /\ s.passed = Cardinality({t \in DOMAIN tests : testStatus[t].t = "Success"})
        /\ s.passed + s.timeouts + s.failed + s.error = Len(tests)

\* C29: Behavior's == is an equivalence relation: reflexive, symmetric and
\* transitive over all Behavior values.
\* (Violated: it is not transitive, Skipped and Return(None) equal values
\* that differ from each other.)
CE_C29 ==
  eq.result # None =>
    /\ BehaviorEq(eq.self, eq.self)
    /\ eq.result[1] = BehaviorEq(eq.other, eq.self)
    /\ \A c \in Behaviors : (eq.result[1] /\ BehaviorEq(eq.other, c)) => BehaviorEq(eq.self, c)

\* C30: when the compiler does not terminate, compile eventually returns the
\* error "CC0 timed out", under every interleaving of the supervising child,
\* the compiler and the alarm; the handler never reads an unset child_pid.
\* (Violated: an alarm that goes off before the compiler has called setpgid
\* signals a process group that does not exist; the compiler keeps the write
\* end of the pipe and the parent's drain never ends.)
CE_C30 ==
  (compileRun.cc.pc = "running" /\ compileRun.cc.kind = "loops")
    ~> (compileRun.pc = "done" /\ compileRun.ret = Err("CC0 timed out"))
====
